---- MODULE Spec2Model ----
(***************************************************************************)
(* A state-machine model of the HACS repository lifecycle                  *)
(* (custom_components/hacs/repositories/base.py), of the validation        *)
(* pipeline (custom_components/hacs/validate/__init__.py) and of the       *)
(* category data generator (scripts/data/generate_category_data.py).       *)
(*                                                                         *)
(* Spec       one repository, stored or freshly constructed, with every    *)
(*            configuration: registration and install.                     *)
(* SpecPair   two installed repositories installing concurrently.          *)
(* SpecChecks two registered repositories whose validation checks are run, *)
(*            one step per suspension of async_run_repository_checks.      *)
(* SpecQueue  one run of generate_data_for_category over the task queue.   *)
(* SpecLifecycle one registered repository of any category: refresh,       *)
(*            install, uninstall, and its place in the record set.         *)
(* SpecStatus the status a record displays, for every combination of the   *)
(*            fields the status is computed from.                          *)
(* SpecRefresh one registered repository refreshed against a remote that   *)
(*            changes.                                                     *)
(* SpecQueueFair SpecQueue under the scheduling of the event loop.         *)
(* SpecBatch  passes of update_repositories over two repositories, and     *)
(*            updates of single elements, with the writes to the store.    *)
(* SpecExport one repository registered, refreshed and exported by the     *)
(*            data generator.                                              *)
(* SpecRoundTrip one stored repository exported and loaded again.          *)
(* SpecElement the content location of a plugin Element.                   *)
(* SpecTasks  update_repositories beside the installed-only loop of        *)
(*            recuring_tasks.                                              *)
(* SpecRegister update_repositories beside register_new_repository.        *)
(* SpecStartup startup_tasks beside update_repositories.                   *)
(* SpecZip    the install of a repository that publishes zip archives.     *)
(***************************************************************************)
EXTENDS Integers, Sequences, FiniteSets, TLC

\* ----------------------------------------------------------------------
\* Bounds and value sets
\* ----------------------------------------------------------------------

\* Largest number of assets a release carries in the model.
MaxAssets == 2

\* Largest number of releases a repository has in the model.
MaxReleases == 2

\* Longest default file of a category.
MaxList == 2

\* Largest number of repositories async_can_update reports.
MaxQuota == 5

\* How often the quota is read as zero in one run.
MaxSleeps == 1

\* How many sleeps of one uninstall the model follows.
MaxWaits == 2

\* The calls of common_update in a row whose results are kept.
MaxCalls == 2

\* The writes to the store that are counted.
MaxWrites == 2

\* Python's None, for the string-valued fields.
None == "None"

Repos == {"r1", "r2"}

Commits == {"c1", "c2"}

\* The caching tokens of the remote.
Etags == {"e1", "e2"}

\* State of a local directory or file: missing, the content of the previous
\* install, a complete new download, a download that stopped half-way.
MainContents == {"absent", "old", "new", "partial"}

\* State of the persistent sub-directory: missing, the user's data, the
\* files the repository ships.
PersistentContents == {"absent", "user", "fresh"}

\* ----------------------------------------------------------------------
\* State
\* ----------------------------------------------------------------------
VARIABLES
    action,          \* hacs.action: the automated (CI) mode flag
    system_running,  \* hacs.system.running
    exited,          \* the process was terminated by exit()
    RULES,           \* validate.RULES: category -> sequence of checks
    data,            \* repository.data (RepositoryData), per repository
    content_single,  \* repository.content.single
    local_path,      \* repository.content.path.local
    errors,          \* repository.validate.errors
    fs,              \* the local file system below content.path.local
    snap,            \* backup storage: location -> snapshot
    pc,              \* position of the repository's install coroutine
    inst,            \* locals of async_install_repository
    oplog,           \* file-system operations and bus events of the attempt
    pre,             \* repository.data as it was when the attempt began
    outcome,         \* how the last attempt ended
    check_log,       \* what async_run_repository_checks last logged
    releases_objects, \* repository.releases.objects
    check_files,     \* the check modules below validate/
    vpc,             \* position of a run of async_run_repository_checks
    checks,          \* its list of instantiated checks
    check_state,     \* the state of each of them
    call_result,     \* how the run ended
    force,           \* generate_data_for_category: the force argument
    q_category,      \* generate_data_for_category: the category argument
    default_list,    \* the repositories of the category's default file
    removed,         \* the removed repositories
    known,           \* full names hacs.repositories has a repository for
    queue,           \* hacs.queue: the tasks not checked out yet
    q_running,       \* hacs.queue.running
    gathered,        \* the tasks the running execute() has gathered
    entered,         \* the tasks that are inside their operation
    gpc,             \* position of generate_data_for_category
    frames,          \* the stack of _handle_queue calls
    sleeps,          \* how often _handle_queue has slept
    content,         \* hacs.data.content: the export
    pending_restart, \* repository.pending_restart
    store_entry,     \* the store file hacs/<id>.hacs exists
    theme_file,      \* <config>/<theme_path>/<name>.yaml exists
    path_safe,       \* is_safe(hacs, local path): it is inside the managed root
    upc,             \* position of the repository's uninstall coroutine
    waits,           \* how often remove_local_directory has slept
    ulog,            \* deletions, checks and bus events of the uninstall
    upre,            \* the repository as it was when the uninstall began
    uresult,         \* how the last uninstall ended
    repositories,    \* hacs.repositories: the registered records
    unregistered,    \* the records remove() unregistered, not registered since
    registered_log,  \* every record that was registered at some time
    blacklist,       \* HacsBase.blacklist
    status,          \* the value display_status returned last
    shown_action,    \* the value main_action returned last
    remote,          \* what the remote has: caching token, commit, hacs.json
    etag_repository, \* data.etag_repository: the caching token last stored
    quiet,           \* results of the last calls of common_update(force=False)
                     \* made in a row while the remote had not changed
    rprev,           \* the record as it was before the last of these calls
    rresult,         \* how the last common_update ended
    rread,           \* the hacs.json the last common_update has read
    batch,           \* the pass of update_repositories and the store writes
    exported,        \* data.content of the generator: id -> exported data
    reloaded,        \* the record before its export and as reloaded from it
    element          \* an Element of a plugin: its name and content location

\* The state of the runs of the validation pipeline.
CheckVars == <<vpc, checks, check_state, call_result>>

\* The state of the data generator.
QueueVars == <<force, q_category, default_list, removed, known, queue,
               q_running, gathered, entered, gpc, frames, sleeps, content>>

\* The state of an uninstall.
UninstallVars == <<pending_restart, store_entry, theme_file, path_safe, upc,
                   waits, ulog, upre, uresult>>

\* The record set.
RecordVars == <<repositories, unregistered, registered_log, blacklist>>

\* What the frontend was last shown.
StatusVars == <<status, shown_action>>

\* The history of the calls of common_update against the remote.
RefreshHistory == <<quiet, rprev, rresult, rread>>

\* The remote, the caching token and the history of the refreshes.
RemoteVars == <<remote, etag_repository, RefreshHistory>>

\* The pass of update_repositories and the writes to the store.
BatchVars == <<batch, exported, reloaded, element>>

vars == <<action, system_running, exited, RULES, data, content_single,
          local_path, errors, fs, snap, pc, inst, oplog, pre, outcome,
          check_log, releases_objects, check_files, CheckVars, QueueVars,
          UninstallVars, RecordVars, StatusVars, RemoteVars, BatchVars>>

\* ----------------------------------------------------------------------
\* Versions (custom_components/hacs/utils/version.py is not in the tree)
\* ----------------------------------------------------------------------

\* The version of the running host.
HaVersion == "2023.12.0"

VersionStrings == {"1.0.0", "2023.12.0", "2024.1.0"}

\* A dotted numeric version string as its numeric components.
VersionTuple(s) ==
    CASE s = "1.0.0"     -> <<1, 0, 0>>
      [] s = "2023.12.0" -> <<2023, 12, 0>>
      [] s = "2024.1.0"  -> <<2024, 1, 0>>
      [] OTHER           -> <<0>>

\* Component i of a version, a missing component counting as 0.
Component(t, i) == IF i <= Len(t) THEN t[i] ELSE 0

\* Index of the first component in which two versions differ, 0 if none.
FirstDiff(a, b) ==
    LET n == IF Len(a) > Len(b) THEN Len(a) ELSE Len(b)
        d == {i \in 1..n : Component(a, i) # Component(b, i)}
    IN  IF d = {} THEN 0 ELSE CHOOSE i \in d : \A j \in d : i <= j

version_left_higher_then_right(left, right) ==
    LET a == VersionTuple(left)
        b == VersionTuple(right)
        i == FirstDiff(a, b)
    IN  i # 0 /\ Component(a, i) > Component(b, i)

version_left_higher_or_equal_then_right(left, right) ==
    left = right \/ version_left_higher_then_right(left, right)
        \/ FirstDiff(VersionTuple(left), VersionTuple(right)) = 0

\* The version install() fetches: the pinned ref when there is one, else
\* the latest release when there is one, else the default branch.
version_to_download(d) ==
    IF d.selected_tag # None THEN d.selected_tag
    ELSE IF d.last_version # None THEN d.last_version
    ELSE d.default_branch

\* ----------------------------------------------------------------------
\* RepositoryData
\* ----------------------------------------------------------------------

\* RepositoryData() as the constructor leaves it.
RepositoryDataDefault(cat) ==
    [category |-> cat, installed |-> FALSE, installed_commit |-> None,
     installed_version |-> None, last_commit |-> None, last_version |-> None,
     new |-> TRUE, persistent_directory |-> None, zip_release |-> FALSE,
     releases |-> FALSE, homeassistant |-> None, selected_tag |-> None,
     default_branch |-> None, description |-> "", domain |-> "",
     config_flow |-> FALSE]

can_download(d) ==
    IF d.homeassistant # None /\ d.releases
         /\ ~version_left_higher_or_equal_then_right(HaVersion, d.homeassistant)
    THEN FALSE
    ELSE TRUE

\* Validate.success: no error was collected.
ValidateSuccess(errs) == errs = <<>>

\* ----------------------------------------------------------------------
\* Status (display_status, main_action, pending_update)
\* ----------------------------------------------------------------------

\* str() of the installed version, else of the installed commit, else "".
display_installed_version(d) ==
    IF d.installed_version # None THEN d.installed_version
    ELSE IF d.installed_commit # None THEN d.installed_commit
    ELSE ""

\* str() of the last version, else of the last commit, else "".
display_available_version(d) ==
    IF d.last_version # None THEN d.last_version
    ELSE IF d.last_commit # None THEN d.last_commit
    ELSE ""

display_version_or_commit(d) == IF d.releases THEN "version" ELSE "commit"

\* pending_update without the test of a selected ref that is the default
\* branch.
pending_update_NoBranchTracking(d) ==
    IF ~can_download(d) THEN FALSE
    ELSE IF ~d.installed THEN FALSE
    ELSE IF display_version_or_commit(d) = "version"
            /\ version_left_higher_then_right(display_available_version(d),
                                              display_installed_version(d))
    THEN TRUE
    ELSE display_installed_version(d) # display_available_version(d)

pending_update(d) ==
    IF ~can_download(d) THEN FALSE
    ELSE IF ~d.installed THEN FALSE
    ELSE IF d.selected_tag # None /\ d.selected_tag = d.default_branch
    THEN d.installed_commit # d.last_commit
    ELSE IF display_version_or_commit(d) = "version"
            /\ version_left_higher_then_right(display_available_version(d),
                                              display_installed_version(d))
    THEN TRUE
    ELSE display_installed_version(d) # display_available_version(d)

\* The status with a pending update tested before a pending restart.
display_status_UpdateFirst(d, restart) ==
    IF d.new THEN "new"
    ELSE IF pending_update(d) THEN "pending-upgrade"
    ELSE IF restart THEN "pending-restart"
    ELSE IF d.installed THEN "installed"
    ELSE "default"

display_status(d, restart) ==
    IF d.new THEN "new"
    ELSE IF restart THEN "pending-restart"
    ELSE IF pending_update(d) THEN "pending-upgrade"
    ELSE IF d.installed THEN "installed"
    ELSE "default"

main_action(d, restart) ==
    LET actions == [new |-> "INSTALL", default |-> "INSTALL",
                    installed |-> "REINSTALL",
                    pending_restart |-> "REINSTALL",
                    pending_upgrade |-> "UPGRADE"]
        st == display_status(d, restart)
    IN  CASE st = "new"             -> actions.new
          [] st = "default"         -> actions.default
          [] st = "installed"       -> actions.installed
          [] st = "pending-restart" -> actions.pending_restart
          [] st = "pending-upgrade" -> actions.pending_upgrade

\* What showing the status leaves alone.
StatusFrame == <<action, system_running, exited, RULES, data, content_single,
                 local_path, errors, fs, snap, pc, inst, oplog, pre, outcome,
                 check_log, releases_objects, check_files, CheckVars,
                 QueueVars, UninstallVars, RecordVars, RemoteVars, BatchVars>>

\* The frontend reads display_status and main_action of the repository.
ShowStatus(r) ==
    /\ status' = [status EXCEPT ![r] = display_status(data[r],
                                                       pending_restart[r])]
    /\ shown_action' = [shown_action EXCEPT ![r] =
                           main_action(data[r], pending_restart[r])]
    /\ UNCHANGED StatusFrame

\* ----------------------------------------------------------------------
\* Backup (custom_components/hacs/backup.py is not in the tree)
\* ----------------------------------------------------------------------

NoPath == [root |-> "", name |-> ""]

\* Where Backup(local_path=...) keeps its copy when no backup_path is given.
DefaultBackupPath(r) == [root |-> "hacs_backup", name |-> r]

\* backup_path of the persistent directory's Backup.
PersistentBackupPath == [root |-> "hacs_persistent_directory", name |-> ""]

\* Where BackupNetDaemon keeps its copy.
NetDaemonBackupPath(r) == [root |-> "hacs_persistent_netdaemon", name |-> r]

BackupPaths ==
    {DefaultBackupPath(r) : r \in Repos} \cup {PersistentBackupPath}
        \cup {NetDaemonBackupPath(r) : r \in Repos}

NoSnap == [taken |-> FALSE, owner |-> "", main |-> "absent", pdir |-> "absent"]

\* A Backup object: what it copies (everything below the local path, or the
\* persistent sub-directory only) and where to.
NoBackup == [part |-> "none", path |-> NoPath]

\* Backup.create: copy the source to the backup path; nothing to do when the
\* source does not exist.
BackupCreate(s, f, b, r) ==
    IF b.part = "main" /\ f[r].main # "absent"
    THEN [s EXCEPT ![b.path] = [taken |-> TRUE, owner |-> r,
                                main |-> f[r].main, pdir |-> f[r].pdir]]
    ELSE IF b.part = "pdir" /\ f[r].pdir # "absent"
    THEN [s EXCEPT ![b.path] = [taken |-> TRUE, owner |-> r,
                                main |-> "absent", pdir |-> f[r].pdir]]
    ELSE s

\* Backup.restore: copy what is at the backup path back over the source.
BackupRestore(s, f, b, r) ==
    IF b.part = "main" /\ s[b.path].taken
    THEN [f EXCEPT ![r] = [main |-> s[b.path].main, pdir |-> s[b.path].pdir]]
    ELSE IF b.part = "pdir" /\ s[b.path].taken
    THEN [f EXCEPT ![r].pdir = s[b.path].pdir]
    ELSE f

\* Backup.cleanup: delete what is at the backup path.
BackupCleanup(s, b) ==
    IF b.part = "none" THEN s ELSE [s EXCEPT ![b.path] = NoSnap]

\* ----------------------------------------------------------------------
\* Helpers
\* ----------------------------------------------------------------------

Range(s) == {s[i] : i \in 1..Len(s)}

\* Position of the first occurrence of x in s, 0 when x is not in s.
IndexOf(s, x) ==
    IF x \in Range(s)
    THEN CHOOSE i \in 1..Len(s) : s[i] = x /\ \A j \in 1..(i - 1) : s[j] # x
    ELSE 0

NoLocals == [version |-> None, ref |-> [tags |-> FALSE, name |-> None],
             persistent_directory |-> NoBackup, backup |-> NoBackup,
             contents |-> 0]

NoPre == [installed |-> FALSE, installed_version |-> None,
          installed_commit |-> None, new |-> TRUE,
          main |-> "absent", pdir |-> "absent"]

NoUninstallPre == [installed |-> FALSE, installed_version |-> None,
                   installed_commit |-> None, pending_restart |-> FALSE,
                   store_entry |-> FALSE]

\* ----------------------------------------------------------------------
\* Validation checks (custom_components/hacs/validate/__init__.py)
\* ----------------------------------------------------------------------

\* The check modules below custom_components/hacs/validate/, in the order
\* glob returns them: the directory, the class and the class's base.
CheckFiles ==
    << [category |-> "common", name |-> "hacs_manifest",
        base |-> "ValidationBase"],
       [category |-> "common", name |-> "repository_description",
        base |-> "ActionValidationBase"],
       [category |-> "integration", name |-> "integration_manifest",
        base |-> "ValidationBase"],
       [category |-> "plugin", name |-> "plugin_file",
        base |-> "ValidationBase"] >>

CheckNames == {CheckFiles[i].name : i \in 1..Len(CheckFiles)}

\* RULES.get(category, [])
RulesGet(rules, category) ==
    IF category \in DOMAIN rules THEN rules[category] ELSE <<>>

\* One iteration of the loop over the files in load_repository_checks.
LoadCheckFile(rules, f, act) ==
    LET keyed == IF f.category \in DOMAIN rules
                 THEN rules
                 ELSE (f.category :> <<>>) @@ rules
    IN  IF ~act /\ f.base = "ActionValidationBase" THEN keyed
        ELSE IF f.name \in Range(keyed[f.category]) THEN keyed
        ELSE [keyed EXCEPT ![f.category] = Append(@, f.name)]

RECURSIVE LoadCheckFiles(_, _, _)
LoadCheckFiles(rules, files, act) ==
    IF files = <<>> THEN rules
    ELSE LoadCheckFiles(LoadCheckFile(rules, Head(files), act),
                        Tail(files), act)

load_repository_checks(rules, files, running, act) ==
    IF ~running THEN rules ELSE LoadCheckFiles(rules, files, act)

\* The checks async_run_repository_checks instantiates for a category.
ChecksToRun(rules, category) ==
    RulesGet(rules, "common") \o RulesGet(rules, category)

\* len([x for x in checks if x.failed])
FailedCount(instances, failedOf) ==
    Cardinality({i \in 1..Len(instances) : failedOf[instances[i]]})

NoCheckLog == [ran |-> FALSE, failed |-> 0, total |-> 0]

\* ----------------------------------------------------------------------
\* Registration (HacsRepository.async_registration)
\* ----------------------------------------------------------------------

\* The attributes the remote reports for a repository.
RemoteAttributes ==
    [description : {None, "", "text"}, default_branch : {"main"}]

\* RepositoryData.update_data: every key of attrs that is a field of the
\* record is set, whatever the field; the other keys are skipped.
update_data(d, attrs) ==
    [k \in DOMAIN d |-> IF k \in DOMAIN attrs THEN attrs[k] ELSE d[k]]

\* What get_repository answers in common_registration: the attributes, or
\* NotModified when the caching token of a record that is not installed
\* was sent and is the one of the remote.
FetchAnswers(d, etag, rem) ==
    IF ~d.installed /\ etag # None /\ etag = rem.etag
    THEN {"attributes", "not_modified"}
    ELSE {"attributes"}

\* common_registration raises when the description is missing in
\* automated mode.
RegistrationRaises(d, act) == act /\ (d.description = None \/ d.description = "")

\* async_run_repository_checks, run to its end in one step: the registry
\* after it, what it logged, and whether it terminated the process.
RunRepositoryChecks(rules, files, running, act, category, failedOf) ==
    IF ~running
    THEN [rules |-> rules, log |-> NoCheckLog, exit |-> FALSE]
    ELSE LET loaded == IF DOMAIN rules = {}
                       THEN load_repository_checks(rules, files, running,
                                                   act)
                       ELSE rules
             instances == ChecksToRun(loaded, category)
             total  == Len(instances)
             failed == FailedCount(instances, failedOf)
         IN  [rules |-> loaded,
              log   |-> [ran |-> TRUE, failed |-> failed, total |-> total],
              exit  |-> failed # 0 /\ act]

Register(r) ==
    /\ ~exited
    /\ pc[r] = "idle"
    /\ local_path[r] = None
    /\ \E valid \in BOOLEAN, attrs \in RemoteAttributes,
          failedOf \in [CheckNames -> BOOLEAN],
          answer \in FetchAnswers(data[r], etag_repository[r], remote[r]) :
         LET d == IF answer = "not_modified" THEN data[r]
                  ELSE update_data(data[r], attrs)
             run == RunRepositoryChecks(RULES, check_files, system_running,
                                        action, d.category, failedOf)
         IN  IF ~valid
             THEN UNCHANGED <<data, local_path, RULES, check_log, exited,
                              etag_repository>>
             ELSE /\ data' = [data EXCEPT ![r] = d]
                  /\ etag_repository' =
                        [etag_repository EXCEPT ![r] =
                           IF answer = "not_modified" THEN @
                           ELSE remote[r].etag]
                  /\ IF answer # "not_modified" /\ RegistrationRaises(d, action)
                     THEN UNCHANGED <<local_path, RULES, check_log, exited>>
                     ELSE /\ local_path' = [local_path EXCEPT ![r] = r]
                          /\ RULES' = run.rules
                          /\ check_log' = [check_log EXCEPT ![r] = run.log]
                          /\ exited' = run.exit
    /\ UNCHANGED <<action, system_running, content_single, errors, fs, snap,
                   pc, inst, oplog, pre, outcome, releases_objects,
                   check_files, CheckVars, QueueVars, UninstallVars,
                   RecordVars, StatusVars, remote, RefreshHistory,
                   BatchVars>>

\* ----------------------------------------------------------------------
\* Install (HacsRepository.async_install, async_install_repository)
\* ----------------------------------------------------------------------

InstallVars == <<action, system_running, exited, RULES, content_single,
                 local_path, check_log, releases_objects, check_files,
                 CheckVars, QueueVars, UninstallVars, RecordVars, StatusVars,
                 RemoteVars, BatchVars>>

Log(r, entry) == [oplog EXCEPT ![r] = Append(@, entry)]

\* The attempt ends with an exception.
Raise(r) ==
    /\ pc' = [pc EXCEPT ![r] = "idle"]
    /\ outcome' = [outcome EXCEPT ![r] = "raised"]

\* async_install is called: _async_pre_install has no effect of its own.
\* The history of the last uninstall is dropped.
InstallStart(r) ==
    /\ ~exited
    /\ pc[r] = "idle"
    /\ upc[r] = "idle"
    /\ pc' = [pc EXCEPT ![r] = "update"]
    /\ pre' = [pre EXCEPT ![r] =
                 [installed |-> data[r].installed,
                  installed_version |-> data[r].installed_version,
                  installed_commit |-> data[r].installed_commit,
                  new |-> data[r].new,
                  main |-> fs[r].main, pdir |-> fs[r].pdir]]
    /\ oplog' = [oplog EXCEPT ![r] = <<>>]
    /\ outcome' = [outcome EXCEPT ![r] = "none"]
    /\ inst' = [inst EXCEPT ![r] = NoLocals]
    /\ ulog' = [ulog EXCEPT ![r] = <<>>]
    /\ upre' = [upre EXCEPT ![r] = NoUninstallPre]
    /\ uresult' = [uresult EXCEPT ![r] = "none"]
    /\ waits' = [waits EXCEPT ![r] = 0]
    /\ UNCHANGED <<data, errors, fs, snap>>
    /\ UNCHANGED <<action, system_running, exited, RULES, content_single,
                   local_path, check_log, releases_objects, check_files,
                   pending_restart, store_entry, theme_file, path_safe, upc,
                   CheckVars, QueueVars, RecordVars, StatusVars, RemoteVars,
                   BatchVars>>

\* await self.update_repository(): the remote fails, or the latest commit
\* is read again.
InstallUpdate(r) ==
    /\ pc[r] = "update"
    /\ \/ /\ Raise(r)
          /\ UNCHANGED data
       \/ \E c \in Commits :
            /\ data' = [data EXCEPT ![r].last_commit = c]
            /\ pc' = [pc EXCEPT ![r] = "prepare"]
            /\ UNCHANGED outcome
    /\ UNCHANGED <<errors, fs, snap, inst, oplog, pre>>
    /\ UNCHANGED InstallVars

\* The Backup object of the persistent directory, if one is to be made.
PersistentBackup(d, f, r) ==
    IF d.installed /\ d.category = "netdaemon"
    THEN [part |-> "pdir", path |-> NetDaemonBackupPath(r)]
    ELSE IF d.persistent_directory # None /\ d.persistent_directory # ""
              /\ f[r].pdir # "absent"
    THEN [part |-> "pdir", path |-> PersistentBackupPath]
    ELSE NoBackup

\* self.ref for a version.
RefOf(d, version) ==
    IF version = d.default_branch
    THEN [tags |-> FALSE, name |-> version]
    ELSE [tags |-> TRUE, name |-> version]

\* InstallPrepare without the test of can_download.
InstallPrepare_NoCompatibilityCheck(r) ==
    /\ pc[r] = "prepare"
    /\ LET d == data[r]
           version == version_to_download(d)
           pd == PersistentBackup(d, fs, r)
       IN  IF local_path[r] = None
           THEN /\ Raise(r)
                /\ UNCHANGED <<errors, inst, snap, oplog>>
           ELSE /\ errors' = [errors EXCEPT ![r] = <<>>]
                /\ inst' = [inst EXCEPT ![r] =
                              [version |-> version, ref |-> RefOf(d, version),
                               persistent_directory |-> pd,
                               backup |-> NoBackup, contents |-> 0]]
                /\ snap' = BackupCreate(snap, fs, pd, r)
                /\ oplog' = IF pd = NoBackup THEN oplog
                            ELSE Log(r, "create_persistent")
                /\ pc' = [pc EXCEPT ![r] = "backup"]
                /\ UNCHANGED outcome
    /\ UNCHANGED <<data, fs, pre>>
    /\ UNCHANGED InstallVars

\* From the check of the local path to the snapshot of the persistent
\* directory.
InstallPrepare(r) ==
    /\ pc[r] = "prepare"
    /\ LET d == data[r]
           version == version_to_download(d)
           pd == PersistentBackup(d, fs, r)
       IN  IF local_path[r] = None
           THEN /\ Raise(r)
                /\ UNCHANGED <<errors, inst, snap, oplog>>
           ELSE IF ~can_download(d)
           THEN /\ Raise(r)
                /\ errors' = [errors EXCEPT ![r] = <<>>]
                /\ UNCHANGED <<inst, snap, oplog>>
           ELSE /\ errors' = [errors EXCEPT ![r] = <<>>]
                /\ inst' = [inst EXCEPT ![r] =
                              [version |-> version, ref |-> RefOf(d, version),
                               persistent_directory |-> pd,
                               backup |-> NoBackup, contents |-> 0]]
                /\ snap' = BackupCreate(snap, fs, pd, r)
                /\ oplog' = IF pd = NoBackup THEN oplog
                            ELSE Log(r, "create_persistent")
                /\ pc' = [pc EXCEPT ![r] = "backup"]
                /\ UNCHANGED outcome
    /\ UNCHANGED <<data, fs, pre>>
    /\ UNCHANGED InstallVars

\* if self.data.installed and not self.content.single
BackupWanted(r) == data[r].installed /\ ~content_single[r]

\* InstallBackup as an if/elif chain with the persistent directory would
\* be: no snapshot of the local content once the persistent one is made.
InstallBackup_ElifChain(r) ==
    /\ pc[r] = "backup"
    /\ IF BackupWanted(r) /\ inst[r].persistent_directory = NoBackup
       THEN LET b == [part |-> "main", path |-> DefaultBackupPath(r)]
            IN  /\ inst' = [inst EXCEPT ![r].backup = b]
                /\ snap' = BackupCreate(snap, fs, b, r)
                /\ oplog' = Log(r, "create_main")
       ELSE UNCHANGED <<inst, snap, oplog>>
    /\ pc' = [pc EXCEPT ![r] = "download"]
    /\ UNCHANGED <<data, errors, fs, pre, outcome>>
    /\ UNCHANGED InstallVars

\* The snapshot of the local content.
InstallBackup(r) ==
    /\ pc[r] = "backup"
    /\ IF BackupWanted(r)
       THEN LET b == [part |-> "main", path |-> DefaultBackupPath(r)]
            IN  /\ inst' = [inst EXCEPT ![r].backup = b]
                /\ snap' = BackupCreate(snap, fs, b, r)
                /\ oplog' = Log(r, "create_main")
       ELSE UNCHANGED <<inst, snap, oplog>>
    /\ pc' = [pc EXCEPT ![r] = "download"]
    /\ UNCHANGED <<data, errors, fs, pre, outcome>>
    /\ UNCHANGED InstallVars

\* What one release asset's download can end with: the file is extracted,
\* no content came back, or an exception was caught.
AssetResults == {"ok", "none", "raise"}

\* The errors async_download_zip_file appends for the assets i..n.
RECURSIVE AssetErrors(_, _, _)
AssetErrors(results, i, n) ==
    IF i > n THEN <<>>
    ELSE (CASE results[i] = "none"  -> <<"was not downloaded">>
            [] results[i] = "raise" -> <<"Download was not completed">>
            [] OTHER                -> <<>>)
         \o AssetErrors(results, i + 1, n)

\* contents in download_zip_files with a loop that keeps the assets of
\* the first release whose tag is the tag of self.ref.
RECURSIVE ZipContents_FirstMatch(_, _, _)
ZipContents_FirstMatch(releases, tag, contents) ==
    IF releases = <<>> THEN contents
    ELSE IF Head(releases).tag_name = tag THEN Head(releases).assets
    ELSE ZipContents_FirstMatch(Tail(releases), tag, contents)

\* contents in download_zip_files: the assets of the last release whose tag
\* is the tag of self.ref, 0 when there is none.
RECURSIVE ZipContents(_, _, _)
ZipContents(releases, tag, contents) ==
    IF releases = <<>> THEN contents
    ELSE ZipContents(Tail(releases), tag,
                     IF Head(releases).tag_name = tag
                     THEN Head(releases).assets ELSE contents)

\* The local content after a download wrote to it.
Written(f, d, r, complete) ==
    [f EXCEPT ![r] =
       [main |-> IF complete THEN "new" ELSE "partial",
        pdir |-> IF d.persistent_directory # None \/ f[r].pdir # "absent"
                 THEN "fresh" ELSE "absent"]]

download_zip_files(r) ==
    LET contents == ZipContents(releases_objects[r], inst[r].ref.name, 0)
    IN  IF contents = 0
        THEN UNCHANGED <<errors, fs, oplog, inst>>
        ELSE \E results \in [1..contents -> AssetResults],
                queue_raises \in BOOLEAN :
               LET errs == AssetErrors(results, 1, contents)
                             \o (IF queue_raises
                                 THEN <<"Download was not completed">>
                                 ELSE <<>>)
               IN  /\ errors' = [errors EXCEPT ![r] = @ \o errs]
                   /\ fs' = Written(fs, data[r], r, errs = <<>>)
                   /\ oplog' = Log(r, "download")
                   /\ inst' = [inst EXCEPT ![r].contents = contents]

\* utils.download.download_content: the tree of the ref is written, a file
\* that fails is reported in the error list.
download_content(r) ==
    \E ok \in BOOLEAN :
       /\ errors' = [errors EXCEPT ![r] =
                       IF ok THEN @ ELSE Append(@, "was not downloaded")]
       /\ fs' = Written(fs, data[r], r, ok)
       /\ oplog' = Log(r, "download")
       /\ UNCHANGED inst

\* The download phase.
InstallDownload(r) ==
    /\ pc[r] = "download"
    /\ IF data[r].zip_release /\ inst[r].version # data[r].default_branch
       THEN download_zip_files(r)
       ELSE download_content(r)
    /\ pc' = [pc EXCEPT ![r] = "restore"]
    /\ UNCHANGED <<data, snap, pre, outcome>>
    /\ UNCHANGED InstallVars

\* if self.validate.errors: ... backup.restore
InstallRestore(r) ==
    /\ pc[r] = "restore"
    /\ IF errors[r] # <<>> /\ BackupWanted(r)
       THEN /\ fs' = BackupRestore(snap, fs, inst[r].backup, r)
            /\ oplog' = Log(r, "restore_main")
       ELSE UNCHANGED <<fs, oplog>>
    /\ pc' = [pc EXCEPT ![r] = "cleanup"]
    /\ UNCHANGED <<data, errors, snap, inst, pre, outcome>>
    /\ UNCHANGED InstallVars

\* InstallCleanup with the cleanup nested in the error branch.
InstallCleanup_OnlyOnError(r) ==
    /\ pc[r] = "cleanup"
    /\ IF errors[r] # <<>> /\ BackupWanted(r)
       THEN /\ snap' = BackupCleanup(snap, inst[r].backup)
            /\ oplog' = Log(r, "cleanup_main")
       ELSE UNCHANGED <<snap, oplog>>
    /\ pc' = [pc EXCEPT ![r] = "persistent_restore"]
    /\ UNCHANGED <<data, errors, fs, inst, pre, outcome>>
    /\ UNCHANGED InstallVars

\* backup.cleanup
InstallCleanup(r) ==
    /\ pc[r] = "cleanup"
    /\ IF BackupWanted(r)
       THEN /\ snap' = BackupCleanup(snap, inst[r].backup)
            /\ oplog' = Log(r, "cleanup_main")
       ELSE UNCHANGED <<snap, oplog>>
    /\ pc' = [pc EXCEPT ![r] = "persistent_restore"]
    /\ UNCHANGED <<data, errors, fs, inst, pre, outcome>>
    /\ UNCHANGED InstallVars

\* InstallPersistentRestore that restores only when the download left no
\* error.
InstallPersistentRestore_OnlyOnSuccess(r) ==
    /\ pc[r] = "persistent_restore"
    /\ IF inst[r].persistent_directory # NoBackup /\ errors[r] = <<>>
       THEN /\ fs' = BackupRestore(snap, fs, inst[r].persistent_directory, r)
            /\ oplog' = Log(r, "restore_persistent")
       ELSE UNCHANGED <<fs, oplog>>
    /\ pc' = [pc EXCEPT ![r] = "persistent_cleanup"]
    /\ UNCHANGED <<data, errors, snap, inst, pre, outcome>>
    /\ UNCHANGED InstallVars

\* persistent_directory.restore
InstallPersistentRestore(r) ==
    /\ pc[r] = "persistent_restore"
    /\ IF inst[r].persistent_directory # NoBackup
       THEN /\ fs' = BackupRestore(snap, fs, inst[r].persistent_directory, r)
            /\ oplog' = Log(r, "restore_persistent")
       ELSE UNCHANGED <<fs, oplog>>
    /\ pc' = [pc EXCEPT ![r] = "persistent_cleanup"]
    /\ UNCHANGED <<data, errors, snap, inst, pre, outcome>>
    /\ UNCHANGED InstallVars

\* persistent_directory.cleanup
InstallPersistentCleanup(r) ==
    /\ pc[r] = "persistent_cleanup"
    /\ IF inst[r].persistent_directory # NoBackup
       THEN /\ snap' = BackupCleanup(snap, inst[r].persistent_directory)
            /\ oplog' = Log(r, "cleanup_persistent")
       ELSE UNCHANGED <<snap, oplog>>
    /\ pc' = [pc EXCEPT ![r] = "finish"]
    /\ UNCHANGED <<data, errors, fs, inst, pre, outcome>>
    /\ UNCHANGED InstallVars

\* InstallFinish without the test of validate.success.
InstallFinish_Unconditional(r) ==
    /\ pc[r] = "finish"
    /\ data' = [data EXCEPT
                  ![r].installed = TRUE,
                  ![r].installed_commit = data[r].last_commit,
                  ![r].installed_version =
                      IF inst[r].version = data[r].default_branch
                      THEN None ELSE inst[r].version]
    /\ pc' = [pc EXCEPT ![r] = "post"]
    /\ UNCHANGED <<errors, fs, snap, inst, oplog, pre, outcome>>
    /\ UNCHANGED InstallVars

\* InstallFinish recording the fetched version also for the default branch.
InstallFinish_AlwaysVersion(r) ==
    /\ pc[r] = "finish"
    /\ IF ValidateSuccess(errors[r])
       THEN data' = [data EXCEPT
                       ![r].installed = TRUE,
                       ![r].installed_commit = data[r].last_commit,
                       ![r].installed_version = inst[r].version]
       ELSE UNCHANGED data
    /\ pc' = [pc EXCEPT ![r] = "post"]
    /\ UNCHANGED <<errors, fs, snap, inst, oplog, pre, outcome>>
    /\ UNCHANGED InstallVars

\* if self.validate.success: the installed state is recorded.
InstallFinish(r) ==
    /\ pc[r] = "finish"
    /\ IF ValidateSuccess(errors[r])
       THEN data' = [data EXCEPT
                       ![r].installed = TRUE,
                       ![r].installed_commit = data[r].last_commit,
                       ![r].installed_version =
                           IF inst[r].version = data[r].default_branch
                           THEN None ELSE inst[r].version]
       ELSE UNCHANGED data
    /\ pc' = [pc EXCEPT ![r] = "post"]
    /\ UNCHANGED <<errors, fs, snap, inst, oplog, pre, outcome>>
    /\ UNCHANGED InstallVars

\* _async_post_install, and async_install returns.
PostInstall(r) ==
    /\ pc[r] = "post"
    /\ data' = [data EXCEPT ![r].new = FALSE]
    /\ oplog' = Log(r, "event_install")
    /\ pc' = [pc EXCEPT ![r] = "idle"]
    /\ outcome' = [outcome EXCEPT ![r] = "returned"]
    /\ UNCHANGED <<errors, fs, snap, inst, pre>>
    /\ UNCHANGED InstallVars

\* ----------------------------------------------------------------------
\* Uninstall (HacsRepository.uninstall, remove_local_directory)
\* ----------------------------------------------------------------------

\* What an uninstall leaves alone.
UninstallFrame == <<action, system_running, exited, RULES, content_single,
                    local_path, errors, snap, pc, check_log,
                    releases_objects, check_files, path_safe, CheckVars,
                    QueueVars, RecordVars, StatusVars, RemoteVars, BatchVars>>

\* The history of the last install attempt.
InstallHistory == <<inst, oplog, pre, outcome>>

ULog(r, entries) == [ulog EXCEPT ![r] = @ \o entries]

\* raise HacsException("Could not uninstall")
UninstallRaise(r) ==
    /\ upc' = [upc EXCEPT ![r] = "idle"]
    /\ uresult' = [uresult EXCEPT ![r] = "raised"]
    /\ UNCHANGED <<data, pending_restart, waits>>

\* remove_local_directory has returned True: installed is cleared, and an
\* integration without a config flow waits for a restart; the uninstall is
\* suspended in the reload or in the removal of the store file.
UninstallCleared(r) ==
    /\ data' = [data EXCEPT ![r].installed = FALSE]
    /\ pending_restart' =
          [pending_restart EXCEPT ![r] =
             IF data[r].category = "integration" /\ ~data[r].config_flow
             THEN TRUE ELSE @]
    /\ upc' = [upc EXCEPT ![r] = "store"]
    /\ uresult' = [uresult EXCEPT ![r] = "none"]

\* What is left below the local path once the content is removed: the file
\* of a python_script is removed alone, a directory with all that is in it.
Removed(f, d, r, left) ==
    [f EXCEPT ![r] = [main |-> left,
                      pdir |-> IF d.category = "python_script" \/ left # "absent"
                               THEN f[r].pdir ELSE "absent"]]

\* uninstall is called and runs to its first suspension: the theme file is
\* removed, the path is checked and the local content is removed. The
\* history of the last install attempt is dropped.
Uninstall(r) ==
    /\ ~exited
    /\ pc[r] = "idle"
    /\ upc[r] = "idle"
    /\ local_path[r] # None
    /\ upre' = [upre EXCEPT ![r] =
                  [installed |-> data[r].installed,
                   installed_version |-> data[r].installed_version,
                   installed_commit |-> data[r].installed_commit,
                   pending_restart |-> pending_restart[r],
                   store_entry |-> store_entry[r]]]
    /\ LET d == data[r]
           themed == d.category = "theme" /\ theme_file[r]
           begun == IF themed THEN <<"remove_theme_file">> ELSE <<>>
           start == [ulog EXCEPT ![r] = begun]
       IN  /\ theme_file' = [theme_file EXCEPT ![r] = IF themed THEN FALSE ELSE @]
           /\ IF d.category = "integration" /\ d.domain = ""
              THEN /\ UninstallRaise(r)
                   /\ ulog' = start
                   /\ UNCHANGED fs
              ELSE IF fs[r].main = "absent"
              THEN /\ UninstallCleared(r)
                   /\ ulog' = start
                   /\ UNCHANGED <<fs, waits>>
              ELSE IF ~path_safe[r]
              THEN /\ UninstallRaise(r)
                   /\ ulog' = [start EXCEPT ![r] = @ \o <<"blocked">>]
                   /\ UNCHANGED fs
              ELSE \E result \in {"removed", "lingers", "raised", "raised_part"} :
                     /\ ulog' = [start EXCEPT ![r] =
                                   @ \o <<"is_safe">>
                                     \o (IF result = "raised" THEN <<>>
                                         ELSE <<"remove">>)
                                     \o (IF result \in {"raised", "raised_part"}
                                         THEN <<"failed">> ELSE <<>>)]
                     /\ CASE result = "removed" ->
                               /\ fs' = Removed(fs, d, r, "absent")
                               /\ UninstallCleared(r)
                               /\ UNCHANGED waits
                          [] result = "lingers" ->
                               /\ fs' = Removed(fs, d, r, "partial")
                               /\ upc' = [upc EXCEPT ![r] = "wait"]
                               /\ waits' = [waits EXCEPT ![r] = 1]
                               /\ uresult' = [uresult EXCEPT ![r] = "none"]
                               /\ UNCHANGED <<data, pending_restart>>
                          [] result = "raised_part" ->
                               /\ fs' = Removed(fs, d, r, "partial")
                               /\ UninstallRaise(r)
                          [] OTHER ->
                               /\ UNCHANGED fs
                               /\ UninstallRaise(r)
    /\ inst' = [inst EXCEPT ![r] = NoLocals]
    /\ oplog' = [oplog EXCEPT ![r] = <<>>]
    /\ pre' = [pre EXCEPT ![r] = NoPre]
    /\ outcome' = [outcome EXCEPT ![r] = "none"]
    /\ UNCHANGED store_entry
    /\ UNCHANGED UninstallFrame

\* A sleep of the loop `while os.path.exists(local_path)` is over: the path
\* is gone and remove_local_directory returns True, or it is still there
\* and the loop sleeps again.
UninstallWait(r) ==
    /\ upc[r] = "wait"
    /\ \E gone \in BOOLEAN :
         IF gone
         THEN /\ fs' = Removed(fs, data[r], r, "absent")
              /\ UninstallCleared(r)
              /\ UNCHANGED waits
         ELSE /\ waits[r] < MaxWaits
              /\ waits' = [waits EXCEPT ![r] = @ + 1]
              /\ UNCHANGED <<fs, data, pending_restart, upc, uresult>>
    /\ UNCHANGED <<store_entry, theme_file, ulog, upre>>
    /\ UNCHANGED InstallHistory
    /\ UNCHANGED UninstallFrame

\* async_remove_store removes the store file of the repository.
UninstallStore(r) ==
    /\ upc[r] = "store"
    /\ store_entry' = [store_entry EXCEPT ![r] = FALSE]
    /\ ulog' = ULog(r, <<"remove_store">>)
    /\ upc' = [upc EXCEPT ![r] = "finish"]
    /\ UNCHANGED <<data, fs, pending_restart, theme_file, waits, upre,
                   uresult>>
    /\ UNCHANGED InstallHistory
    /\ UNCHANGED UninstallFrame

\* The event is fired, the installed commit is left as it is.
UninstallFinish_KeepsCommit(r) ==
    /\ upc[r] = "finish"
    /\ data' = [data EXCEPT ![r].installed_version = None]
    /\ ulog' = ULog(r, <<"event_uninstall">>)
    /\ upc' = [upc EXCEPT ![r] = "idle"]
    /\ uresult' = [uresult EXCEPT ![r] = "returned"]
    /\ UNCHANGED <<fs, pending_restart, store_entry, theme_file, waits, upre>>
    /\ UNCHANGED InstallHistory
    /\ UNCHANGED UninstallFrame

\* The installed version and commit are cleared and the event is fired.
UninstallFinish(r) ==
    /\ upc[r] = "finish"
    /\ data' = [data EXCEPT ![r].installed_version = None,
                            ![r].installed_commit = None]
    /\ ulog' = ULog(r, <<"event_uninstall">>)
    /\ upc' = [upc EXCEPT ![r] = "idle"]
    /\ uresult' = [uresult EXCEPT ![r] = "returned"]
    /\ UNCHANGED <<fs, pending_restart, store_entry, theme_file, waits, upre>>
    /\ UNCHANGED InstallHistory
    /\ UNCHANGED UninstallFrame

\* ----------------------------------------------------------------------
\* Refresh (HacsRepository.common_update) and the record set
\* ----------------------------------------------------------------------

\* What the tree of the repository has for hacs.json: no file, a file that
\* does not parse, or one of these files.
Manifests == {"missing", "invalid", "name", "min_host", "installed",
              "category"}

\* json.loads(manifest.content)
ManifestContent(m) ==
    CASE m = "min_host"  -> [homeassistant |-> "2024.1.0"]
      [] m = "installed" -> [name |-> "Widget", installed |-> TRUE]
      [] m = "category"  -> [name |-> "Widget", category |-> "theme"]
      [] OTHER           -> [name |-> "Widget"]

\* get_repository_manifest_content: the record after it, and whether it
\* raised.
get_repository_manifest_content(d, m, act) ==
    IF m = "missing" \/ m = "invalid"
    THEN [data |-> d, raised |-> act]
    ELSE [data |-> update_data(d, ManifestContent(m)), raised |-> FALSE]

\* What a refresh leaves alone.
RefreshFrame == <<action, system_running, exited, RULES, content_single,
                  local_path, errors, fs, snap, pc, check_log,
                  releases_objects, check_files, pending_restart, store_entry,
                  theme_file, path_safe, upc, CheckVars, QueueVars,
                  StatusVars, RemoteVars, BatchVars>>

\* The history of the last install attempt and of the last uninstall.
Histories == <<inst, oplog, pre, outcome, ulog, upre, uresult, waits>>

\* Another operation begins on the repository: the history of its last
\* install attempt and of its last uninstall is dropped.
ForgetHistory(r) ==
    /\ inst' = [inst EXCEPT ![r] = NoLocals]
    /\ oplog' = [oplog EXCEPT ![r] = <<>>]
    /\ pre' = [pre EXCEPT ![r] = NoPre]
    /\ outcome' = [outcome EXCEPT ![r] = "none"]
    /\ ulog' = [ulog EXCEPT ![r] = <<>>]
    /\ upre' = [upre EXCEPT ![r] = NoUninstallPre]
    /\ uresult' = [uresult EXCEPT ![r] = "none"]
    /\ waits' = [waits EXCEPT ![r] = 0]

\* common_update: the remote fails, or the content was not modified, or
\* the last commit and the manifest are read.
common_update(r) ==
    \/ \E result \in {"raised", "not_modified"} :
          /\ result = "not_modified" => ~data[r].installed
          /\ UNCHANGED data
    \/ \E c \in Commits, m \in Manifests :
          data' = [data EXCEPT ![r] =
                     get_repository_manifest_content(
                        [@ EXCEPT !.last_commit = c], m, action).data]

\* A refresh of a repository no other operation is running for.
Refresh(r) ==
    /\ ~exited
    /\ pc[r] = "idle"
    /\ upc[r] = "idle"
    /\ local_path[r] # None
    /\ common_update(r)
    /\ ForgetHistory(r)
    /\ UNCHANGED RecordVars
    /\ UNCHANGED RefreshFrame

\* ----------------------------------------------------------------------
\* Refresh against the remote (common_update, common_update_data)
\* ----------------------------------------------------------------------

\* common_update_data (utils/validate_repository.py is not in the tree):
\* the attributes are fetched with the caching token of a record that is
\* not installed, without one when forced or installed; the remote
\* answers NotModified for its own token, and the token it reports is
\* stored otherwise.
common_update_data(d, etag, rem, frc) ==
    IF ~frc /\ ~d.installed /\ etag = rem.etag
    THEN [etag |-> etag, modified |-> FALSE]
    ELSE [etag |-> rem.etag, modified |-> TRUE]

\* The last two results of the calls made in a row.
Window(q, x) == IF Len(q) = MaxCalls THEN Tail(q) \o <<x>> ELSE Append(q, x)

\* What a call of common_update leaves alone.
RemoteFrame == <<action, system_running, exited, RULES, content_single,
                 local_path, errors, fs, snap, pc, inst, oplog, pre, outcome,
                 check_log, releases_objects, check_files, CheckVars,
                 QueueVars, UninstallVars, RecordVars, StatusVars,
                 BatchVars>>

\* The remote changes: it has another caching token, and any commit and
\* hacs.json.
RemoteChange(r) ==
    /\ \E e \in Etags \ {remote[r].etag}, c \in Commits, m \in Manifests :
         remote' = [remote EXCEPT ![r] =
                      [etag |-> e, commit |-> c, manifest |-> m]]
    /\ quiet' = [quiet EXCEPT ![r] = <<>>]
    /\ rprev' = [rprev EXCEPT ![r] = RepositoryDataDefault("")]
    /\ UNCHANGED <<data, etag_repository, rresult, rread>>
    /\ UNCHANGED RemoteFrame

\* common_update without the return for a record that is not installed
\* and whose caching token has not changed.
RefreshFromRemote_NoEarlyReturn(r) ==
    /\ ~exited
    /\ pc[r] = "idle"
    /\ upc[r] = "idle"
    /\ local_path[r] # None
    /\ \E frc \in BOOLEAN, failed \in BOOLEAN :
         LET d == data[r]
             current_etag == etag_repository[r]
             same == current_etag = remote[r].etag
             fetched == common_update_data(d, current_etag, remote[r], frc)
             got == get_repository_manifest_content(
                       [d EXCEPT !.last_commit = remote[r].commit],
                       remote[r].manifest, action)
             result == IF failed \/ got.raised THEN "raised" ELSE "updated"
             window == IF ~frc /\ same /\ result # "raised"
                       THEN Window(quiet[r], result) ELSE <<>>
         IN  /\ data' = IF failed THEN data
                        ELSE [data EXCEPT ![r] = got.data]
             /\ etag_repository' = [etag_repository EXCEPT ![r] =
                                       IF failed THEN @ ELSE fetched.etag]
             /\ rresult' = [rresult EXCEPT ![r] = result]
             /\ rread' = [rread EXCEPT ![r] =
                             IF failed THEN "none" ELSE remote[r].manifest]
             /\ quiet' = [quiet EXCEPT ![r] = window]
             /\ rprev' = [rprev EXCEPT ![r] =
                             IF window = <<>> THEN RepositoryDataDefault("")
                             ELSE d]
    /\ UNCHANGED remote
    /\ UNCHANGED RemoteFrame

\* common_update(force) against the remote: the fetch of the attributes
\* fails, or the record is left alone because it is not installed, its
\* caching token has not changed and the call is not forced, or the last
\* commit and the hacs.json of the remote are read.
RefreshFromRemote(r) ==
    /\ ~exited
    /\ pc[r] = "idle"
    /\ upc[r] = "idle"
    /\ local_path[r] # None
    /\ \E frc \in BOOLEAN, failed \in BOOLEAN :
         LET d == data[r]
             current_etag == etag_repository[r]
             same == current_etag = remote[r].etag
             fetched == common_update_data(d, current_etag, remote[r], frc)
             skip == ~d.installed /\ current_etag = fetched.etag /\ ~frc
             got == get_repository_manifest_content(
                       [d EXCEPT !.last_commit = remote[r].commit],
                       remote[r].manifest, action)
             result == IF failed THEN "raised"
                       ELSE IF skip THEN "unchanged"
                       ELSE IF got.raised THEN "raised"
                       ELSE "updated"
             window == IF ~frc /\ same /\ result # "raised"
                       THEN Window(quiet[r], result) ELSE <<>>
         IN  /\ data' = IF failed \/ skip THEN data
                        ELSE [data EXCEPT ![r] = got.data]
             /\ etag_repository' = [etag_repository EXCEPT ![r] =
                                       IF failed THEN @ ELSE fetched.etag]
             /\ rresult' = [rresult EXCEPT ![r] = result]
             /\ rread' = [rread EXCEPT ![r] =
                             IF failed \/ skip THEN "none"
                             ELSE remote[r].manifest]
             /\ quiet' = [quiet EXCEPT ![r] = window]
             /\ rprev' = [rprev EXCEPT ![r] =
                             IF window = <<>> THEN RepositoryDataDefault("")
                             ELSE d]
    /\ UNCHANGED remote
    /\ UNCHANGED RemoteFrame

\* ----------------------------------------------------------------------
\* The record set (HacsBase.update_repositories, HacsRepository.remove)
\* ----------------------------------------------------------------------

\* register_new_repository, from the end of the setup: the repository is
\* added when its setup succeeded, and blacklisted when it failed.
register_new_repository(r) ==
    /\ ~exited
    /\ r \notin repositories
    /\ r \notin blacklist
    /\ \E setup_result \in BOOLEAN :
         IF setup_result /\ local_path[r] # None
         THEN /\ repositories' = repositories \cup {r}
              /\ registered_log' = registered_log \cup {r}
              /\ unregistered' = unregistered \ {r}
              /\ UNCHANGED blacklist
         ELSE /\ blacklist' = blacklist \cup {r}
              /\ UNCHANGED <<repositories, registered_log, unregistered>>
    /\ UNCHANGED data
    /\ UNCHANGED Histories
    /\ UNCHANGED RefreshFrame

\* A pass of the loop that drops the repository whose update it skips or
\* whose update raises.
update_repositories_DropsOnFailure(r) ==
    /\ ~exited
    /\ r \in repositories
    /\ pc[r] = "idle"
    /\ upc[r] = "idle"
    /\ \E track \in BOOLEAN :
         IF track \/ r \in blacklist THEN UNCHANGED data ELSE common_update(r)
    /\ ForgetHistory(r)
    /\ repositories' = IF data' = data THEN repositories \ {r}
                       ELSE repositories
    /\ UNCHANGED <<unregistered, registered_log, blacklist>>
    /\ UNCHANGED RefreshFrame

\* One pass of the loop of update_repositories over a registered
\* repository: a tracked or blacklisted one is skipped, the update of
\* another one runs and what it raises is logged.
update_repositories(r) ==
    /\ ~exited
    /\ r \in repositories
    /\ pc[r] = "idle"
    /\ upc[r] = "idle"
    /\ \E track \in BOOLEAN :
         IF track \/ r \in blacklist THEN UNCHANGED data ELSE common_update(r)
    /\ ForgetHistory(r)
    /\ UNCHANGED RecordVars
    /\ UNCHANGED RefreshFrame

\* remove: the repository is unregistered when it is registered.
remove(r) ==
    /\ ~exited
    /\ IF r \in repositories
       THEN /\ repositories' = repositories \ {r}
            /\ unregistered' = unregistered \cup {r}
       ELSE UNCHANGED <<repositories, unregistered>>
    /\ UNCHANGED <<data, registered_log, blacklist>>
    /\ UNCHANGED Histories
    /\ UNCHANGED RefreshFrame

\* ----------------------------------------------------------------------
\* The pass of update_repositories and the store (hacsbase.py, element.py)
\* ----------------------------------------------------------------------

\* What a step of the pass leaves alone.
PassFrame == <<action, system_running, exited, RULES, content_single,
               exported, reloaded, element, local_path, errors, fs, snap, pc, check_log,
               releases_objects, check_files, pending_restart, store_entry,
               theme_file, path_safe, upc, CheckVars, QueueVars,
               StatusVars, RemoteVars>>

\* No call of register_new_repository was made.
NoReg == [element_type |-> None, result |-> None, in_pass |-> FALSE,
          returned |-> None, was_registered |-> FALSE, was_listed |-> FALSE,
          registered |-> FALSE, listed |-> FALSE]

\* No call of update() was made by the step.
NoCall == [r |-> None, loop |-> None, track |-> FALSE, listed |-> FALSE,
           registered |-> FALSE, installed |-> FALSE]

\* An exception leaves update_repositories: the pass is over, and nothing
\* behind the raising call has run.
PassAborted ==
    [batch EXCEPT !.at = "ended", !.call = NoCall, !.reg = NoReg]

\* What a call of register_new_repository meets: the setup returns; the
\* setup raises one of HacsRequirement, HacsBaseException and
\* AIOGitHubException; set_repository raises an AIOGitHubException;
\* set_repository or the setup raises something else.
SetupResults == {"setup", "setup_failed", "github", "other"}

\* The repository of HACS itself, "custom-components/hacs".
HacsRepository == "r1"

\* The categories register_new_repository has a class for.
ElementTypes == {"integration", "plugin"}

\* register_new_repository with a name that is appended to the blacklist
\* whatever the blacklist holds.
Appends_Always(r) == TRUE

\* `if repo not in self.blacklist`: the name is appended.
Appends(r) == r \notin blacklist

\* The setup of the repository was reached and returned.
SetupSucceeded(r, element_type, result) ==
    /\ element_type \in ElementTypes
    /\ result = "setup"
    /\ local_path[r] # None

\* The setup of the repository was reached and raised an exception that
\* register_new_repository catches.
SetupFailed(r, element_type, result) ==
    /\ element_type \in ElementTypes
    /\ result \notin {"github", "other"}
    /\ ~SetupSucceeded(r, element_type, result)

\* register_new_repository: False for a category without a class; the
\* repository is added when its setup returned and its name is appended
\* to the blacklist when the setup raised an exception that is caught;
\* any other exception leaves the function.
RegisterOutcome(r, element_type, result) ==
    IF SetupSucceeded(r, element_type, result)
    THEN /\ repositories' = repositories \cup {r}
         /\ registered_log' = registered_log \cup {r}
         /\ unregistered' = unregistered \ {r}
         /\ UNCHANGED blacklist
    ELSE IF SetupFailed(r, element_type, result) /\ Appends(r)
    THEN /\ blacklist' = blacklist \cup {r}
         /\ UNCHANGED <<repositories, registered_log, unregistered>>
    ELSE UNCHANGED RecordVars

\* The name is appended to a blacklist that holds it.
AppendedTwice(r, element_type, result) ==
    /\ SetupFailed(r, element_type, result)
    /\ Appends(r)
    /\ r \in blacklist

\* What register_new_repository returns, or that it raised.
RegistrationReturn(r, element_type, result) ==
    IF element_type \notin ElementTypes THEN "False"
    ELSE IF result \in {"github", "other"} THEN "raised"
    ELSE IF SetupSucceeded(r, element_type, result) THEN "True"
    ELSE "not"

\* A call of register_new_repository: what it was given, what it met,
\* what it returned, and whether the repository was registered and on
\* the blacklist before and after it.
Registration(r, element_type, result, in_pass) ==
    [element_type |-> element_type, result |-> result,
     in_pass |-> in_pass,
     returned |-> RegistrationReturn(r, element_type, result),
     was_registered |-> r \in repositories,
     was_listed |-> r \in blacklist,
     registered |-> r \in repositories',
     listed |-> r \in blacklist']

\* repository.update() is called by a loop over the registered
\* repositories: what the repository is at the call.
UpdateCall(r, loop, track) ==
    [r |-> r, loop |-> loop, track |-> track, listed |-> r \in blacklist,
     registered |-> r \in repositories, installed |-> data[r].installed]

\* update_repositories is called: the loop over the registered
\* repositories begins.
PassStart ==
    /\ ~exited
    /\ batch.at \in {"idle", "ended"}
    /\ batch.writes < MaxWrites
    /\ batch' = [batch EXCEPT !.at = "update", !.todo = repositories,
                             !.found = {}, !.persisted = FALSE,
                             !.task_running = TRUE, !.call = NoCall,
                             !.reg = NoReg]
    /\ UNCHANGED <<data, RecordVars>>
    /\ UNCHANGED Histories
    /\ UNCHANGED PassFrame

\* A pass of the first loop that skips a blacklisted repository and
\* updates a tracked one.
PassUpdate_IgnoresTrack(r) ==
    /\ ~exited
    /\ batch.at = "update"
    /\ r \in batch.todo
    /\ pc[r] = "idle"
    /\ upc[r] = "idle"
    /\ \E track \in BOOLEAN, other \in BOOLEAN :
         IF r \in blacklist
         THEN /\ UNCHANGED data
              /\ batch' = [batch EXCEPT !.todo = @ \ {r}, !.call = NoCall,
                              !.reg = NoReg]
         ELSE IF other
         THEN /\ UNCHANGED data
              /\ batch' = [PassAborted EXCEPT
                              !.call = UpdateCall(r, "all", track)]
         ELSE /\ common_update(r)
              /\ batch' = [batch EXCEPT !.todo = @ \ {r}, !.reg = NoReg,
                              !.call = UpdateCall(r, "all", track)]
    /\ ForgetHistory(r)
    /\ UNCHANGED RecordVars
    /\ UNCHANGED PassFrame

\* One pass of the first loop: a tracked or blacklisted repository is
\* skipped; the update of another one returns, or raises an
\* AIOGitHubException, which is logged, or raises something else, which
\* leaves update_repositories.
PassUpdate(r) ==
    /\ ~exited
    /\ batch.at = "update"
    /\ r \in batch.todo
    /\ pc[r] = "idle"
    /\ upc[r] = "idle"
    /\ \E track \in BOOLEAN, other \in BOOLEAN :
         IF track \/ r \in blacklist
         THEN /\ UNCHANGED data
              /\ batch' = [batch EXCEPT !.todo = @ \ {r}, !.call = NoCall,
                              !.reg = NoReg]
         ELSE IF other
         THEN /\ UNCHANGED data
              /\ batch' = [PassAborted EXCEPT
                              !.call = UpdateCall(r, "all", track)]
         ELSE /\ common_update(r)
              /\ batch' = [batch EXCEPT !.todo = @ \ {r}, !.reg = NoReg,
                              !.call = UpdateCall(r, "all", track)]
    /\ ForgetHistory(r)
    /\ UNCHANGED RecordVars
    /\ UNCHANGED PassFrame

\* recuring_tasks(installed_only=True) is called: the loop over the
\* registered repositories begins when there are any.
RecurStart ==
    /\ ~exited
    /\ batch.rtodo = {}
    /\ repositories # {}
    /\ batch' = [batch EXCEPT !.rtodo = repositories, !.call = NoCall,
                             !.reg = NoReg]
    /\ UNCHANGED <<data, RecordVars>>
    /\ UNCHANGED Histories
    /\ UNCHANGED PassFrame

\* One pass of the loop of recuring_tasks(installed_only=True): a
\* tracked or blacklisted repository is skipped, and so is one that is
\* not installed; the update of another one returns or raises. An
\* exception that is not an AIOGitHubException leaves recuring_tasks.
RecurUpdate(r) ==
    /\ ~exited
    /\ r \in batch.rtodo
    /\ pc[r] = "idle"
    /\ upc[r] = "idle"
    /\ \E track \in BOOLEAN, other \in BOOLEAN :
         IF track \/ r \in blacklist \/ ~data[r].installed
         THEN /\ UNCHANGED data
              /\ batch' = [batch EXCEPT !.rtodo = @ \ {r}, !.call = NoCall,
                              !.reg = NoReg]
         ELSE IF other
         THEN /\ UNCHANGED data
              /\ batch' = [batch EXCEPT !.rtodo = {}, !.reg = NoReg,
                              !.call = UpdateCall(r, "installed", track)]
         ELSE /\ common_update(r)
              /\ batch' = [batch EXCEPT !.rtodo = @ \ {r}, !.reg = NoReg,
                              !.call = UpdateCall(r, "installed", track)]
    /\ ForgetHistory(r)
    /\ UNCHANGED RecordVars
    /\ UNCHANGED PassFrame

\* The first loop is over: get_repositories returns the repositories of
\* the organisations, or raises.
PassDiscover ==
    /\ ~exited
    /\ batch.at = "update"
    /\ batch.todo = {}
    /\ \E raised \in BOOLEAN, listed \in SUBSET DOMAIN data :
         batch' = IF raised THEN PassAborted
                  ELSE [batch EXCEPT !.at = "register", !.found = listed,
                                     !.call = NoCall, !.reg = NoReg]
    /\ UNCHANGED <<data, RecordVars>>
    /\ UNCHANGED Histories
    /\ UNCHANGED PassFrame

\* One pass of the second loop: an archived, blacklisted or registered
\* repository is skipped; register_new_repository adds the repository
\* when its setup succeeded and blacklists it when the setup raised one
\* of the exceptions it catches; an AIOGitHubException that leaves it is
\* logged, anything else leaves update_repositories.
PassRegister(r) ==
    /\ ~exited
    /\ batch.at = "register"
    /\ r \in batch.found
    /\ \E archived \in BOOLEAN, result \in SetupResults :
         IF archived \/ r \in blacklist \/ r \in repositories
         THEN /\ batch' = [batch EXCEPT !.found = @ \ {r}, !.reg = NoReg,
                                        !.call = NoCall]
              /\ UNCHANGED RecordVars
         ELSE /\ RegisterOutcome(r, data[r].category, result)
              /\ batch' =
                   [(IF result = "other" THEN PassAborted
                     ELSE [batch EXCEPT !.found = @ \ {r}]) EXCEPT
                       !.call = NoCall,
                       !.reg = Registration(r, data[r].category, result,
                                           TRUE),
                       !.twice = @ \/ AppendedTwice(r, data[r].category,
                                                    result)]
    /\ UNCHANGED data
    /\ UNCHANGED Histories
    /\ UNCHANGED PassFrame

\* register_new_repository is called for a repository outside a pass of
\* update_repositories, with a category it knows or with another one.
RegisterNew(r) ==
    /\ ~exited
    /\ \E element_type \in {data[r].category, "theme"},
          result \in SetupResults :
         /\ RegisterOutcome(r, element_type, result)
         /\ batch' = [batch EXCEPT
                        !.call = NoCall,
                        !.reg = Registration(r, element_type, result, FALSE),
                        !.twice = @ \/ AppendedTwice(r, element_type,
                                                     result)]
    /\ UNCHANGED data
    /\ UNCHANGED Histories
    /\ UNCHANGED PassFrame

\* Both loops are over: await self.storage.set(), and the pass ends.
PassPersist ==
    /\ ~exited
    /\ batch.at = "register"
    /\ batch.found = {}
    /\ batch' = [batch EXCEPT !.at = "ended", !.persisted = TRUE,
                             !.writes = @ + 1, !.task_running = FALSE,
                             !.call = NoCall, !.reg = NoReg]
    /\ UNCHANGED <<data, RecordVars>>
    /\ UNCHANGED Histories
    /\ UNCHANGED PassFrame

\* startup_tasks is called: task_running is set, and the calls it awaits
\* are under way.
StartupBegin ==
    /\ ~exited
    /\ batch.startup = "idle"
    /\ batch' = [batch EXCEPT !.startup = "running", !.task_running = TRUE,
                             !.call = NoCall, !.reg = NoReg]
    /\ UNCHANGED <<data, RecordVars>>
    /\ UNCHANGED Histories
    /\ UNCHANGED PassFrame

\* The calls startup_tasks awaits are over: one of them raised, and the
\* exception leaves startup_tasks; or the repository of HACS itself is
\* registered, the stored data is loaded and task_running is cleared.
StartupEnd ==
    /\ ~exited
    /\ batch.startup = "running"
    /\ \E raised \in BOOLEAN :
         IF raised
         THEN /\ batch' = [batch EXCEPT !.startup = "ended",
                                        !.call = NoCall, !.reg = NoReg]
              /\ UNCHANGED RecordVars
         ELSE /\ batch' = [batch EXCEPT !.startup = "ended",
                                        !.task_running = FALSE,
                                        !.call = NoCall, !.reg = NoReg]
              /\ repositories' = repositories \cup {HacsRepository}
              /\ registered_log' = registered_log \cup {HacsRepository}
              /\ unregistered' = unregistered \ {HacsRepository}
              /\ UNCHANGED blacklist
    /\ UNCHANGED data
    /\ UNCHANGED Histories
    /\ UNCHANGED PassFrame

\* Element.update_element: nothing is done for an element without an
\* identifier or on the blacklist; otherwise the element is fetched, an
\* integration without a manifest is put on the blacklist, and the data
\* is written to the store.
update_element(r) ==
    /\ ~exited
    /\ batch.writes < MaxWrites
    /\ \E has_id \in BOOLEAN, manifest_none \in BOOLEAN :
         IF ~has_id \/ r \in blacklist
         THEN UNCHANGED <<blacklist, batch>>
         ELSE /\ blacklist' =
                   IF data[r].category = "integration" /\ manifest_none
                   THEN blacklist \cup {r} ELSE blacklist
              /\ batch' = [batch EXCEPT !.writes = @ + 1,
                                        !.call = NoCall, !.reg = NoReg]
    /\ UNCHANGED <<data, repositories, unregistered, registered_log>>
    /\ UNCHANGED Histories
    /\ UNCHANGED PassFrame

\* ----------------------------------------------------------------------
\* The export of the data generator (async_store_repository_data)
\* ----------------------------------------------------------------------

\* The keys of the record that are exported, each with its default; of
\* the keys of the table, those whose values are strings in the record.
REPOSITORY_KEYS_TO_EXPORT ==
    [description |-> "", etag_repository |-> None, last_commit |-> None,
     last_version |-> None]

\* The keys of the manifest that are exported, each with its default.
HACS_MANIFEST_KEYS_TO_EXPORT == [name |-> None]

\* The loop over a table of keys: a key is written with the value of the
\* field when the value differs from the default of the key.
ExportKeys(fields, defaults) ==
    [k \in {x \in DOMAIN defaults : fields[x] # defaults[x]} |-> fields[k]]

\* The fields of repository.data the export reads.
RepositoryFields(d, etag) ==
    [description |-> d.description, etag_repository |-> etag,
     last_commit |-> d.last_commit, last_version |-> d.last_version]

\* What a step of the export leaves alone.
ExportFrame == <<action, system_running, exited, RULES, data, content_single,
                 local_path, errors, fs, snap, pc, inst, oplog, pre, outcome,
                 check_log, releases_objects, check_files, CheckVars,
                 QueueVars, UninstallVars, RecordVars, StatusVars,
                 RemoteVars, batch, element>>


\* async_store_repository_data for a registered repository whose manifest
\* has the given name: the exported data replaces the data stored under
\* the identifier of the repository.
async_store_repository_data(r) ==
    /\ ~exited
    /\ local_path[r] # None
    /\ \E name \in {None, "Widget"} :
         exported' =
            (r :> [manifest |-> ExportKeys([name |-> name],
                                           HACS_MANIFEST_KEYS_TO_EXPORT),
                   data |-> ExportKeys(
                               RepositoryFields(data[r], etag_repository[r]),
                               REPOSITORY_KEYS_TO_EXPORT),
                   last_fetched |-> "timestamp"])
            @@ exported
    /\ UNCHANGED reloaded
    /\ UNCHANGED ExportFrame

\* RepositoryData.create_from_dict: a record as constructed, with every
\* key of the source that is a field of the record set to its value.
create_from_dict(source) ==
    LET new_data == RepositoryDataDefault("")
    IN  [k \in DOMAIN new_data |->
           IF k \in DOMAIN source THEN source[k] ELSE new_data[k]]

\* The exported data of a repository is loaded into a new record; the
\* record it was exported from is kept beside it.
RestoreExported(r) ==
    /\ ~exited
    /\ r \in DOMAIN exported
    /\ exported[r].data =
          ExportKeys(RepositoryFields(data[r], etag_repository[r]),
                     REPOSITORY_KEYS_TO_EXPORT)
    /\ reloaded' = (r :> [before |-> data[r],
                          after |-> create_from_dict(exported[r].data)])
                   @@ reloaded
    /\ UNCHANGED exported
    /\ UNCHANGED ExportFrame

\* ----------------------------------------------------------------------
\* The content of a plugin Element (fetch_github_element_content_plugin)
\* ----------------------------------------------------------------------

\* The names of the plugins, as the last part of the repository name.
ElementNames == {"card", "lovelace-card"}

\* The .js files a location holds.
JsFiles == {"card.js", "lovelace-card.js", "lovelace-card-bundle.js"}

\* The answer of a location whose fetch raises an exception.
Raises == {"raises"}

\* What a location answers: the set of its .js files, or an exception.
Listings == (SUBSET JsFiles) \cup {Raises}

\* "{}.js".format(self.name.replace("lovelace-", ""))
RootFileName(name) == "card.js"

\* "{}.js".format(self.name)
ReleaseFileName1(name) ==
    IF name = "card" THEN "card.js" ELSE "lovelace-card.js"

\* "{}-bundle.js".format(self.name)
ReleaseFileName2(name) ==
    IF name = "card" THEN "card-bundle.js" ELSE "lovelace-card-bundle.js"

\* The expected file is among the files of the location.
FoundIn(location, name, listing) ==
    /\ listing # Raises
    /\ IF location = "release"
       THEN \/ ReleaseFileName1(name) \in listing
            \/ ReleaseFileName2(name) \in listing
       ELSE RootFileName(name) \in listing

\* One block of fetch_github_element_content_plugin: the location is
\* tried when the path is None or the path the block tests for, and the
\* path and the files are set when the expected file is found.
TryLocation(e, tested, location, listing) ==
    IF (e.path = None \/ e.path = tested)
         /\ FoundIn(location, e.name, listing)
    THEN [e EXCEPT !.path = location, !.files = listing]
    ELSE e

\* fetch_github_element_content_plugin with a third block that is tried
\* when the path is None or "dist".
plugin_content_DistTestsDist(e, root, release, dist) ==
    TryLocation(TryLocation(TryLocation(e, "root", "root", root),
                            "release", "release", release),
                "dist", "dist", dist)

\* fetch_github_element_content_plugin: the root, the assets of the last
\* release and dist/ are tried in turn.
plugin_content(e, root, release, dist) ==
    TryLocation(TryLocation(TryLocation(e, "root", "root", root),
                            "release", "release", release),
                "root", "dist", dist)

\* What a step on the Element leaves alone.
ElementFrame == <<action, system_running, exited, RULES, data, content_single,
                  local_path, errors, fs, snap, pc, inst, oplog, pre, outcome,
                  check_log, releases_objects, check_files, CheckVars,
                  QueueVars, UninstallVars, RecordVars, StatusVars,
                  RemoteVars, batch, exported, reloaded>>

\* The content of the Element is fetched; the path it had and what the
\* locations answered are kept beside the result.
fetch_github_element_content_plugin ==
    /\ element.name # None
    /\ \E root \in Listings, release \in Listings, dist \in Listings :
         element' =
            [plugin_content(element, root, release, dist) EXCEPT
                !.before = element.path,
                !.listed = <<root, release, dist>>]
    /\ UNCHANGED ElementFrame

\* ----------------------------------------------------------------------
\* Specifications
\* ----------------------------------------------------------------------

\* The data generator is not in use.
InitQueueIdle ==
    /\ force = FALSE
    /\ q_category = "integration"
    /\ default_list = <<>>
    /\ removed = {}
    /\ known = {}
    /\ queue = <<>>
    /\ q_running = FALSE
    /\ gathered = {}
    /\ entered = {}
    /\ gpc = "done"
    /\ frames = <<>>
    /\ sleeps = 0
    /\ content = {}

\* The releases of a repository that publishes the version v.
ReleaseLists(v) ==
    {<<>>, <<[tag_name |-> v, assets |-> MaxAssets]>>}

\* The releases of a repository that publishes zip archives: up to
\* MaxReleases releases, under the tag v or an older one, each with up to
\* MaxAssets assets.
ZipReleaseLists(v) ==
    UNION {[1..n -> [tag_name : {v, "0.9.0"}, assets : 0..MaxAssets]] :
              n \in 0..MaxReleases}

\* A repository as the store restores it: registered, installed or not.
StoredRepository ==
    {[d |-> d, single |-> single, rel |-> rel] :
        d \in {x \in [category : {"integration", "netdaemon"},
                      installed : BOOLEAN,
                      installed_commit : {None, "c1"},
                      installed_version : {None},
                      last_commit : {"c1"},
                      last_version : {None, "1.0.0"},
                      new : BOOLEAN,
                      persistent_directory : {None, "userfiles"},
                      zip_release : BOOLEAN,
                      releases : BOOLEAN,
                      homeassistant : {None, "2024.1.0"},
                      selected_tag : {None},
                      default_branch : {"main"},
                      description : {"text"},
                      domain : {"widget"},
                      config_flow : {FALSE}] :
                 /\ x.installed = (x.installed_commit # None)
                 /\ x.new = ~x.installed
                 /\ x.releases = (x.last_version # None)
                 /\ x.zip_release => x.releases
                 /\ x.homeassistant # None => x.releases},
        single \in BOOLEAN,
        rel \in ReleaseLists("1.0.0")}

\* The local content of a stored repository.
StoredContent(d) ==
    [main |-> IF d.installed THEN "old" ELSE "absent",
     pdir |-> IF d.installed /\ d.persistent_directory # None
              THEN "user" ELSE "absent"]

InitRepositories(stored) ==
    /\ data = [r \in DOMAIN stored |-> stored[r].d]
    /\ content_single = [r \in DOMAIN stored |-> stored[r].single]
    /\ releases_objects = [r \in DOMAIN stored |->
                             IF stored[r].d.zip_release
                             THEN stored[r].rel ELSE <<>>]
    /\ fs = [r \in DOMAIN stored |-> StoredContent(stored[r].d)]
    /\ errors = [r \in DOMAIN stored |-> <<>>]
    /\ snap = [p \in BackupPaths |-> NoSnap]
    /\ pc = [r \in DOMAIN stored |-> "idle"]
    /\ inst = [r \in DOMAIN stored |-> NoLocals]
    /\ oplog = [r \in DOMAIN stored |-> <<>>]
    /\ pre = [r \in DOMAIN stored |-> NoPre]
    /\ outcome = [r \in DOMAIN stored |-> "none"]
    /\ check_log = [r \in DOMAIN stored |-> NoCheckLog]
    /\ exited = FALSE
    /\ RULES = <<>>
    /\ vpc = [r \in DOMAIN stored |-> "idle"]
    /\ checks = [r \in DOMAIN stored |-> <<>>]
    /\ check_state = [r \in DOMAIN stored |-> <<>>]
    /\ call_result = [r \in DOMAIN stored |-> "none"]
    /\ upc = [r \in DOMAIN stored |-> "idle"]
    /\ waits = [r \in DOMAIN stored |-> 0]
    /\ ulog = [r \in DOMAIN stored |-> <<>>]
    /\ upre = [r \in DOMAIN stored |-> NoUninstallPre]
    /\ uresult = [r \in DOMAIN stored |-> "none"]
    /\ unregistered = {}
    /\ blacklist = {}
    /\ status = [r \in DOMAIN stored |-> "none"]
    /\ shown_action = [r \in DOMAIN stored |-> "none"]

\* Every record is in hacs.repositories, its local path is inside the
\* managed root, an installed one has its store file, no theme file exists
\* and no restart is pending.
InitManaged ==
    /\ repositories = DOMAIN data
    /\ registered_log = DOMAIN data
    /\ path_safe = [r \in DOMAIN data |-> TRUE]
    /\ theme_file = [r \in DOMAIN data |-> FALSE]
    /\ store_entry = [r \in DOMAIN data |-> data[r].installed]
    /\ pending_restart = [r \in DOMAIN data |-> FALSE]

\* No Element is looked at.
NoElement == [name |-> None, path |-> None, files |-> {},
              before |-> None, listed |-> <<>>]

\* No pass of update_repositories is running and nothing was written to
\* the store; task_running is True as the class sets it; startup_tasks
\* was not called; no name was appended twice to the blacklist.
NoBatch == [at |-> "idle", todo |-> {}, found |-> {}, persisted |-> FALSE,
            writes |-> 0, call |-> NoCall, rtodo |-> {},
            task_running |-> TRUE, startup |-> "idle", twice |-> FALSE,
            reg |-> NoReg]

\* The remote has the commit c1 and a hacs.json with a name under the
\* caching token e1; the records hold the caching tokens etags; no
\* common_update has been called.
InitRemote(etags) ==
    /\ remote = [r \in DOMAIN data |->
                   [etag |-> "e1", commit |-> "c1", manifest |-> "name"]]
    /\ etag_repository = etags
    /\ quiet = [r \in DOMAIN data |-> <<>>]
    /\ rprev = [r \in DOMAIN data |-> RepositoryDataDefault("")]
    /\ rresult = [r \in DOMAIN data |-> "none"]
    /\ rread = [r \in DOMAIN data |-> "none"]

\* A repository that has just been constructed and is not registered yet.
NewRepository ==
    {[d |-> RepositoryDataDefault(cat), single |-> FALSE, rel |-> <<>>] :
        cat \in {"integration", "plugin"}}

\* One repository: it comes from the store, or it has just been
\* constructed.
Init ==
    /\ action \in BOOLEAN
    /\ system_running = TRUE
    /\ check_files = CheckFiles
    /\ InitQueueIdle
    /\ \/ \E s \in StoredRepository :
            /\ InitRepositories("r1" :> s)
            /\ local_path = ("r1" :> "r1")
            /\ InitRemote("r1" :> "e1")
            /\ batch = NoBatch
            /\ exported = <<>>
            /\ reloaded = <<>>
            /\ element = NoElement
       \/ \E s \in NewRepository, e \in {None, "e1"} :
            /\ InitRepositories("r1" :> s)
            /\ local_path = ("r1" :> None)
            /\ InitRemote("r1" :> e)
            /\ batch = NoBatch
            /\ exported = <<>>
            /\ reloaded = <<>>
            /\ element = NoElement
    /\ InitManaged

Next ==
    \/ \E r \in DOMAIN data : Register(r)
    \/ \E r \in DOMAIN data : InstallStart(r)
    \/ \E r \in DOMAIN data : InstallUpdate(r)
    \/ \E r \in DOMAIN data : InstallPrepare(r)
    \/ \E r \in DOMAIN data : InstallBackup(r)
    \/ \E r \in DOMAIN data : InstallDownload(r)
    \/ \E r \in DOMAIN data : InstallRestore(r)
    \/ \E r \in DOMAIN data : InstallCleanup(r)
    \/ \E r \in DOMAIN data : InstallPersistentRestore(r)
    \/ \E r \in DOMAIN data : InstallPersistentCleanup(r)
    \/ \E r \in DOMAIN data : InstallFinish(r)
    \/ \E r \in DOMAIN data : PostInstall(r)

Spec == Init /\ [][Next]_vars

\* The install of a repository that publishes zip archives, whatever its
\* list of releases holds.
InitZip ==
    /\ action = FALSE
    /\ system_running = TRUE
    /\ check_files = CheckFiles
    /\ InitQueueIdle
    /\ \E s \in {x \in StoredRepository :
                    /\ x.d.zip_release /\ x.d.category = "integration"
                    /\ x.d.homeassistant = None
                    /\ x.d.persistent_directory = None
                    /\ ~x.single},
          rel \in ZipReleaseLists("1.0.0") :
         InitRepositories("r1" :> [s EXCEPT !.rel = rel])
    /\ local_path = ("r1" :> "r1")
    /\ InitRemote("r1" :> "e1")
    /\ batch = NoBatch
    /\ exported = <<>>
    /\ reloaded = <<>>
    /\ element = NoElement
    /\ InitManaged

NextZip ==
    \/ \E r \in DOMAIN data : InstallStart(r)
    \/ \E r \in DOMAIN data : InstallUpdate(r)
    \/ \E r \in DOMAIN data : InstallPrepare(r)
    \/ \E r \in DOMAIN data : InstallBackup(r)
    \/ \E r \in DOMAIN data : InstallDownload(r)
    \/ \E r \in DOMAIN data : InstallRestore(r)
    \/ \E r \in DOMAIN data : InstallCleanup(r)
    \/ \E r \in DOMAIN data : InstallPersistentRestore(r)
    \/ \E r \in DOMAIN data : InstallPersistentCleanup(r)
    \/ \E r \in DOMAIN data : InstallFinish(r)
    \/ \E r \in DOMAIN data : PostInstall(r)

SpecZip == InitZip /\ [][NextZip]_vars

\* Two stored repositories, both installed, in interactive mode.
InitPair ==
    /\ action = FALSE
    /\ system_running = TRUE
    /\ check_files = CheckFiles
    /\ InitQueueIdle
    /\ \E s1, s2 \in {s \in StoredRepository :
                        /\ s.d.installed /\ s.d.category = "integration"
                        /\ ~s.d.zip_release /\ s.d.homeassistant = None
                        /\ s.d.last_version = None /\ s.rel = <<>>} :
         InitRepositories("r1" :> s1 @@ "r2" :> s2)
    /\ local_path = [r \in Repos |-> r]
    /\ InitRemote([r \in DOMAIN data |-> "e1"])
    /\ batch = NoBatch
    /\ exported = <<>>
    /\ reloaded = <<>>
    /\ element = NoElement
    /\ InitManaged

NextPair ==
    \/ \E r \in DOMAIN data : InstallStart(r)
    \/ \E r \in DOMAIN data : InstallUpdate(r)
    \/ \E r \in DOMAIN data : InstallPrepare(r)
    \/ \E r \in DOMAIN data : InstallBackup(r)
    \/ \E r \in DOMAIN data : InstallDownload(r)
    \/ \E r \in DOMAIN data : InstallRestore(r)
    \/ \E r \in DOMAIN data : InstallCleanup(r)
    \/ \E r \in DOMAIN data : InstallPersistentRestore(r)
    \/ \E r \in DOMAIN data : InstallPersistentCleanup(r)
    \/ \E r \in DOMAIN data : InstallFinish(r)
    \/ \E r \in DOMAIN data : PostInstall(r)

SpecPair == InitPair /\ [][NextPair]_vars

\* A registered repository of any category, installed or not.
LifecycleRepository ==
    {[d |-> [RepositoryDataDefault(cat) EXCEPT
               !.installed = installed,
               !.installed_commit = IF installed THEN "c1" ELSE None,
               !.new = ~installed,
               !.last_commit = "c1",
               !.default_branch = "main",
               !.description = "text",
               !.domain = domain,
               !.config_flow = config_flow],
      single |-> FALSE, rel |-> <<>>] :
        cat \in {"integration", "plugin", "theme", "python_script"},
        installed \in BOOLEAN,
        domain \in {"", "widget"},
        config_flow \in BOOLEAN}

\* One registered repository in interactive mode; its local path may lie
\* outside the managed root, its theme file may exist.
InitLifecycle ==
    /\ action = FALSE
    /\ system_running = TRUE
    /\ check_files = CheckFiles
    /\ InitQueueIdle
    /\ \E s \in {x \in LifecycleRepository :
                    /\ x.d.category # "integration" =>
                          x.d.domain = "" /\ ~x.d.config_flow
                    /\ x.d.config_flow => x.d.domain # ""} :
         InitRepositories("r1" :> s)
    /\ local_path = ("r1" :> "r1")
    /\ repositories = DOMAIN data
    /\ registered_log = DOMAIN data
    /\ path_safe \in [DOMAIN data -> BOOLEAN]
    /\ theme_file \in [DOMAIN data -> BOOLEAN]
    /\ \A r \in DOMAIN data : theme_file[r] => data[r].category = "theme"
    /\ store_entry = [r \in DOMAIN data |-> data[r].installed]
    /\ pending_restart = [r \in DOMAIN data |-> FALSE]
    /\ InitRemote([r \in DOMAIN data |-> "e1"])
    /\ batch = NoBatch
    /\ exported = <<>>
    /\ reloaded = <<>>
    /\ element = NoElement

NextLifecycle ==
    \/ \E r \in DOMAIN data : Refresh(r)
    \/ \E r \in DOMAIN data : register_new_repository(r)
    \/ \E r \in DOMAIN data : update_repositories(r)
    \/ \E r \in DOMAIN data : remove(r)
    \/ \E r \in DOMAIN data : Uninstall(r)
    \/ \E r \in DOMAIN data : UninstallWait(r)
    \/ \E r \in DOMAIN data : UninstallStore(r)
    \/ \E r \in DOMAIN data : UninstallFinish(r)
    \/ \E r \in DOMAIN data : InstallStart(r)
    \/ \E r \in DOMAIN data : InstallUpdate(r)
    \/ \E r \in DOMAIN data : InstallPrepare(r)
    \/ \E r \in DOMAIN data : InstallBackup(r)
    \/ \E r \in DOMAIN data : InstallDownload(r)
    \/ \E r \in DOMAIN data : InstallRestore(r)
    \/ \E r \in DOMAIN data : InstallCleanup(r)
    \/ \E r \in DOMAIN data : InstallPersistentRestore(r)
    \/ \E r \in DOMAIN data : InstallPersistentCleanup(r)
    \/ \E r \in DOMAIN data : InstallFinish(r)
    \/ \E r \in DOMAIN data : PostInstall(r)

SpecLifecycle == InitLifecycle /\ [][NextLifecycle]_vars

\* One registered repository, installed or not, in interactive or in
\* automated mode, whose caching token is the one of the remote.
InitRefresh ==
    /\ action \in BOOLEAN
    /\ system_running = TRUE
    /\ check_files = CheckFiles
    /\ InitQueueIdle
    /\ \E s \in {x \in LifecycleRepository :
                    /\ x.d.category \in {"integration", "plugin"}
                    /\ x.d.domain = "" /\ ~x.d.config_flow} :
         InitRepositories("r1" :> s)
    /\ local_path = ("r1" :> "r1")
    /\ InitRemote([r \in DOMAIN data |-> "e1"])
    /\ batch = NoBatch
    /\ exported = <<>>
    /\ reloaded = <<>>
    /\ element = NoElement
    /\ InitManaged

NextRefresh ==
    \/ \E r \in DOMAIN data : RemoteChange(r)
    \/ \E r \in DOMAIN data : RefreshFromRemote(r)

SpecRefresh == InitRefresh /\ [][NextRefresh]_vars

\* A record as a refresh, an install and an uninstall can leave it, with
\* every combination of the fields the status is computed from.
StatusRepository ==
    {[d |-> d, single |-> FALSE, rel |-> <<>>] :
        d \in {x \in [category : {"integration", "plugin", "theme"},
                      installed : BOOLEAN,
                      installed_commit : {None, "c1"},
                      installed_version : {None, "1.0.0", "2024.1.0"},
                      last_commit : Commits \cup {None},
                      last_version : {None, "1.0.0", "2024.1.0"},
                      new : BOOLEAN,
                      persistent_directory : {None},
                      zip_release : {FALSE},
                      releases : BOOLEAN,
                      homeassistant : {None, "2023.12.0", "2024.1.0"},
                      selected_tag : {None, "main"},
                      default_branch : {"main"},
                      description : {"text"},
                      domain : {"widget"},
                      config_flow : {FALSE}] :
                 /\ x.releases = (x.last_version # None)
                 /\ x.installed_version # None => x.releases}}

\* One registered repository whose status has not been shown yet.
InitStatus ==
    /\ action = FALSE
    /\ system_running = TRUE
    /\ check_files = CheckFiles
    /\ InitQueueIdle
    /\ \E s \in StatusRepository : InitRepositories("r1" :> s)
    /\ local_path = ("r1" :> "r1")
    /\ repositories = DOMAIN data
    /\ registered_log = DOMAIN data
    /\ path_safe = [r \in DOMAIN data |-> TRUE]
    /\ theme_file = [r \in DOMAIN data |-> FALSE]
    /\ store_entry = [r \in DOMAIN data |-> data[r].installed]
    /\ pending_restart \in [DOMAIN data -> BOOLEAN]
    /\ InitRemote([r \in DOMAIN data |-> "e1"])
    /\ batch = NoBatch
    /\ exported = <<>>
    /\ reloaded = <<>>
    /\ element = NoElement

NextStatus ==
    \/ \E r \in DOMAIN data : ShowStatus(r)

SpecStatus == InitStatus /\ [][NextStatus]_vars

\* ----------------------------------------------------------------------
\* Properties of install
\* ----------------------------------------------------------------------

\* x was logged, and before y was.
Before(log, x, y) ==
    /\ IndexOf(log, x) # 0
    /\ IndexOf(log, y) # 0 => IndexOf(log, x) < IndexOf(log, y)

\* x was logged and y was logged after it.
Followed(log, x, y) ==
    /\ IndexOf(log, x) # 0
    /\ IndexOf(log, y) > IndexOf(log, x)

\* The attempt of r is past its download phase.
AfterDownload(r) ==
    \/ pc[r] \in {"restore", "cleanup", "persistent_restore",
                  "persistent_cleanup", "finish", "post"}
    \/ pc[r] = "idle" /\ outcome[r] = "returned"

Returned(r) == pc[r] = "idle" /\ outcome[r] = "returned"

\* C1: when the download phase of install ends with a non-empty error
\* list, installed, installed_version and installed_commit keep the values
\* they had before the attempt, and a main-content backup that was taken
\* has been restored (the local content is the one from before the
\* attempt) when install returns.
C1_FailedInstallKeepsState ==
    \A r \in DOMAIN data :
       /\ (AfterDownload(r) /\ errors[r] # <<>>) =>
             /\ data[r].installed = pre[r].installed
             /\ data[r].installed_version = pre[r].installed_version
             /\ data[r].installed_commit = pre[r].installed_commit
       /\ (Returned(r) /\ errors[r] # <<>>
             /\ IndexOf(oplog[r], "create_main") # 0) =>
             /\ Followed(oplog[r], "create_main", "restore_main")
             /\ fs[r].main = pre[r].main
             /\ fs[r].pdir = pre[r].pdir

\* An install of an installed repository returned with errors after its
\* backup was restored.
C1_Witness ==
    \E r \in DOMAIN data :
       /\ Returned(r) /\ errors[r] # <<>>
       /\ pre[r].installed /\ pre[r].installed_commit # data[r].last_commit
       /\ IndexOf(oplog[r], "restore_main") # 0

\* C2: after install completes with an empty error list, installed is true,
\* installed_commit is the latest known commit, installed_version is None
\* when the resolved ref is the default branch and the resolved version
\* otherwise, and new is false.
C2_SuccessfulInstallRecorded ==
    \A r \in DOMAIN data :
       (Returned(r) /\ errors[r] = <<>>) =>
          /\ data[r].installed
          /\ data[r].installed_commit = data[r].last_commit
          /\ ~inst[r].ref.tags => data[r].installed_version = None
          /\ inst[r].ref.tags => data[r].installed_version = inst[r].ref.name
          /\ ~data[r].new

\* An install of the default branch succeeded for a repository that was
\* not installed.
C2_Witness ==
    \E r \in DOMAIN data :
       /\ Returned(r) /\ errors[r] = <<>>
       /\ ~pre[r].installed /\ ~inst[r].ref.tags
       /\ inst[r].ref.name = data[r].default_branch

\* C3: the install event is emitted, and new is set to false, only when an
\* install attempt succeeds: an attempt that ends with a non-empty error
\* list emits no install event and leaves new unchanged.
C3_InstallEventOnlyOnSuccess ==
    \A r \in DOMAIN data :
       /\ IndexOf(oplog[r], "event_install") # 0 => errors[r] = <<>>
       /\ (Returned(r) /\ errors[r] # <<>>) => data[r].new = pre[r].new

\* The repository was installed, with content on disk, when the attempt
\* of r began.
HadContent(r) == pre[r].installed /\ pre[r].main # "absent"

C5_NoSnapshotOutlivesAttempt ==
    \A r \in DOMAIN data :
       (pc[r] = "idle" /\ outcome[r] # "none") =>
          /\ \A p \in BackupPaths : snap[p].owner # r
          /\ IndexOf(oplog[r], "create_main") # 0 =>
                Followed(oplog[r], "create_main", "cleanup_main")
          /\ IndexOf(oplog[r], "create_persistent") # 0 =>
                /\ Followed(oplog[r], "create_persistent",
                            "restore_persistent")
                /\ Followed(oplog[r], "restore_persistent",
                            "cleanup_persistent")
          /\ (IndexOf(oplog[r], "create_main") # 0 /\ errors[r] # <<>>) =>
                /\ Followed(oplog[r], "create_main", "restore_main")
                /\ Followed(oplog[r], "restore_main", "cleanup_main")

\* A successful attempt that made both snapshots has returned.
C5_Witness ==
    \E r \in DOMAIN data :
       /\ Returned(r) /\ errors[r] = <<>>
       /\ IndexOf(oplog[r], "create_main") # 0
       /\ IndexOf(oplog[r], "create_persistent") # 0
       /\ \A p \in BackupPaths : ~snap[p].taken

\* The backup paths the running attempt of r holds.
HeldPaths(r) ==
    IF pc[r] = "idle" THEN {}
    ELSE {inst[r].backup.path, inst[r].persistent_directory.path} \ {NoPath}

\* C6: two install attempts that run at the same time for different
\* repositories never hold the same snapshot location, main-content or
\* persistent.
C6_SnapshotLocationsDisjoint ==
    \A r1, r2 \in DOMAIN data :
       r1 # r2 => HeldPaths(r1) \cap HeldPaths(r2) = {}

\* C8: in interactive mode no content is downloaded for, and installed is
\* not set on, a repository whose validation run reported a failed check.
C8_FailedCheckBlocksInstall ==
    \A r \in DOMAIN data :
       (~action /\ check_log[r].ran /\ check_log[r].failed > 0) =>
          /\ IndexOf(oplog[r], "download") = 0
          /\ ~data[r].installed

\* ----------------------------------------------------------------------
\* The validation pipeline step by step (async_run_repository_checks)
\* ----------------------------------------------------------------------

PipelineVars == <<action, system_running, data, content_single, local_path,
                  errors, fs, snap, pc, inst, oplog, pre, outcome,
                  releases_objects, check_files, QueueVars, UninstallVars,
                  RecordVars, StatusVars, RemoteVars, BatchVars>>

Finished(state) == state \in {"passed", "failed"}

\* Every check of the run of r has finished.
AllFinished(r) ==
    \A i \in 1..Len(check_state[r]) : Finished(check_state[r][i])

\* The checks of RULES for the repository are instantiated and gather
\* starts them all.
SelectChecks(r, rules) ==
    LET selected == ChecksToRun(rules, data[r].category)
    IN  /\ checks' = [checks EXCEPT ![r] = selected]
        /\ check_state' = [check_state EXCEPT ![r] =
                             [i \in 1..Len(selected) |-> "running"]]
        /\ vpc' = [vpc EXCEPT ![r] = "gather"]

\* The call, up to its first suspension: it returns at once when the
\* system is not running, waits for the load when RULES is empty, and
\* starts the checks otherwise.
ChecksStart(r) ==
    /\ ~exited
    /\ vpc[r] = "idle"
    /\ IF ~system_running
       THEN /\ call_result' = [call_result EXCEPT ![r] = "returned"]
            /\ checks' = [checks EXCEPT ![r] = <<>>]
            /\ check_state' = [check_state EXCEPT ![r] = <<>>]
            /\ check_log' = [check_log EXCEPT ![r] = NoCheckLog]
            /\ UNCHANGED vpc
       ELSE /\ call_result' = [call_result EXCEPT ![r] = "none"]
            /\ check_log' = [check_log EXCEPT ![r] = NoCheckLog]
            /\ IF DOMAIN RULES = {}
               THEN /\ vpc' = [vpc EXCEPT ![r] = "load"]
                    /\ checks' = [checks EXCEPT ![r] = <<>>]
                    /\ check_state' = [check_state EXCEPT ![r] = <<>>]
               ELSE SelectChecks(r, RULES)
    /\ UNCHANGED <<RULES, exited>>
    /\ UNCHANGED PipelineVars

\* The executor job load_repository_checks runs.
ChecksLoad(r) ==
    /\ ~exited
    /\ vpc[r] = "load"
    /\ RULES' = load_repository_checks(RULES, check_files, system_running,
                                       action)
    /\ vpc' = [vpc EXCEPT ![r] = "select"]
    /\ UNCHANGED <<checks, check_state, call_result, check_log, exited>>
    /\ UNCHANGED PipelineVars

\* The call resumes after the load.
ChecksSelect(r) ==
    /\ ~exited
    /\ vpc[r] = "select"
    /\ SelectChecks(r, RULES)
    /\ UNCHANGED <<RULES, call_result, check_log, exited>>
    /\ UNCHANGED PipelineVars

\* One of the gathered checks finishes.
CheckFinish(r) ==
    /\ ~exited
    /\ vpc[r] = "gather"
    /\ \E i \in 1..Len(checks[r]), result \in {"passed", "failed"} :
         /\ check_state[r][i] = "running"
         /\ check_state' = [check_state EXCEPT ![r][i] = result]
    /\ UNCHANGED <<RULES, vpc, checks, call_result, check_log, exited>>
    /\ UNCHANGED PipelineVars

\* The aggregate over the checks of r: total and failed.
Aggregate(r) ==
    [ran |-> TRUE,
     failed |-> Cardinality({i \in 1..Len(checks[r]) :
                               check_state[r][i] = "failed"}),
     total |-> Len(checks[r])]

\* What follows the gather, taken once ready holds.
ChecksAggregateWhen(r, ready) ==
    /\ ~exited
    /\ vpc[r] = "gather"
    /\ ready
    /\ check_log' = [check_log EXCEPT ![r] = Aggregate(r)]
    /\ IF Aggregate(r).failed # 0 /\ action
       THEN /\ exited' = TRUE
            /\ call_result' = [call_result EXCEPT ![r] = "exit"]
       ELSE /\ UNCHANGED exited
            /\ call_result' = [call_result EXCEPT ![r] = "returned"]
    /\ vpc' = [vpc EXCEPT ![r] = "idle"]
    /\ UNCHANGED <<RULES, checks, check_state>>
    /\ UNCHANGED PipelineVars

\* ChecksAggregate with a wait that returns at the first finished check.
ChecksAggregate_FirstCompleted(r) ==
    ChecksAggregateWhen(r, \/ Len(checks[r]) = 0
                           \/ \E i \in 1..Len(checks[r]) :
                                 Finished(check_state[r][i]))

\* ChecksAggregate that never terminates the process.
ChecksAggregate_NeverExits(r) ==
    /\ ~exited
    /\ vpc[r] = "gather"
    /\ AllFinished(r)
    /\ check_log' = [check_log EXCEPT ![r] = Aggregate(r)]
    /\ call_result' = [call_result EXCEPT ![r] = "returned"]
    /\ vpc' = [vpc EXCEPT ![r] = "idle"]
    /\ UNCHANGED <<RULES, checks, check_state, exited>>
    /\ UNCHANGED PipelineVars

\* gather has returned: the counts are taken, and the process is
\* terminated in automated mode when a check failed.
ChecksAggregate(r) == ChecksAggregateWhen(r, AllFinished(r))

\* Two registered repositories whose checks are run, in either mode, with
\* the check modules present or with an empty validate directory.
InitChecks ==
    /\ action \in BOOLEAN
    /\ system_running \in BOOLEAN
    /\ check_files \in {CheckFiles, <<>>}
    /\ InitQueueIdle
    /\ \E c1, c2 \in {"integration", "plugin"} :
         InitRepositories(
            "r1" :> [d |-> [RepositoryDataDefault(c1) EXCEPT
                              !.default_branch = "main"],
                     single |-> FALSE, rel |-> <<>>] @@
            "r2" :> [d |-> [RepositoryDataDefault(c2) EXCEPT
                              !.default_branch = "main"],
                     single |-> FALSE, rel |-> <<>>])
    /\ local_path = [r \in Repos |-> r]
    /\ InitRemote([r \in DOMAIN data |-> "e1"])
    /\ batch = NoBatch
    /\ exported = <<>>
    /\ reloaded = <<>>
    /\ element = NoElement
    /\ InitManaged

NextChecks ==
    \/ \E r \in DOMAIN data : ChecksStart(r)
    \/ \E r \in DOMAIN data : ChecksLoad(r)
    \/ \E r \in DOMAIN data : ChecksSelect(r)
    \/ \E r \in DOMAIN data : CheckFinish(r)
    \/ \E r \in DOMAIN data : ChecksAggregate(r)

SpecChecks == InitChecks /\ [][NextChecks]_vars

\* ----------------------------------------------------------------------
\* Properties of the validation pipeline
\* ----------------------------------------------------------------------

\* The number of checks of the run of r that failed.
FailedChecks(r) ==
    Cardinality({i \in 1..Len(checks[r]) : check_state[r][i] = "failed"})

\* C9: when at least one applicable check fails, the run terminates the
\* process in automated mode, with the failed/total count, and logs and
\* returns normally in interactive mode; when no check fails or none is
\* registered it returns normally in both modes.
C9_ExitOnlyInAutomatedMode ==
    \A r \in DOMAIN data :
       call_result[r] # "none" =>
          /\ (FailedChecks(r) > 0 /\ action) =>
                /\ call_result[r] = "exit" /\ exited
                /\ check_log[r] = [ran |-> TRUE, failed |-> FailedChecks(r),
                                   total |-> Len(checks[r])]
          /\ (FailedChecks(r) > 0 /\ ~action) =>
                /\ call_result[r] = "returned" /\ ~exited
                /\ check_log[r].failed = FailedChecks(r)
          /\ (FailedChecks(r) = 0 \/ checks[r] = <<>>) =>
                call_result[r] = "returned"

\* A run in automated mode terminated the process with one of two checks
\* failed.
C9_Witness ==
    \E r \in DOMAIN data :
       /\ call_result[r] = "exit"
       /\ check_log[r].failed = 1 /\ check_log[r].total > 1

\* The names of the check modules of a category that are loaded in the
\* current mode.
LoadedChecks(category) ==
    {check_files[i].name : i \in
       {j \in 1..Len(check_files) :
          /\ check_files[j].category = category
          /\ action \/ check_files[j].base # "ActionValidationBase"}}

\* C10: the run for a repository has every check registered under
\* "common" and under the repository's category and no other check, each
\* once, and the failed/total aggregate is taken only when every one of
\* them has finished.
C10_ChecksOfCategoryThenAggregate ==
    \A r \in DOMAIN data :
       /\ vpc[r] = "gather" \/ call_result[r] # "none" =>
             /\ Range(checks[r]) = Range(RulesGet(RULES, "common"))
                    \cup Range(RulesGet(RULES, data[r].category))
             /\ system_running => Range(checks[r]) =
                    LoadedChecks("common") \cup LoadedChecks(data[r].category)
             /\ Cardinality(Range(checks[r])) = Len(checks[r])
       /\ check_log[r].ran =>
             /\ AllFinished(r)
             /\ check_log[r].total = Len(checks[r])
             /\ check_log[r].failed = FailedChecks(r)

\* A run with a common and a category check has taken its aggregate, one
\* check failed, while the run of the other repository is still waiting.
C10_Witness ==
    \E r, o \in DOMAIN data :
       /\ r # o /\ data[r].category # data[o].category
       /\ check_log[r].ran /\ check_log[r].total > 1
       /\ check_log[r].failed = 1
       /\ vpc[o] = "gather" /\ ~AllFinished(o)

\* ----------------------------------------------------------------------
\* The data generator (scripts/data/generate_category_data.py)
\* ----------------------------------------------------------------------

NonQueueVars == <<action, system_running, exited, RULES, data,
                  content_single, local_path, errors, fs, snap, pc, inst,
                  oplog, pre, outcome, check_log, releases_objects,
                  check_files, CheckVars, UninstallVars, RecordVars,
                  StatusVars, RemoteVars, BatchVars>>

\* The full names that occur in default files and in the stored data.
Names == {"acme/widget", "hacs/integration"}

\* The default files of at most n entries.
ListsUpTo(n) == UNION {[1..k -> Names] : k \in 0..n}

\* @concurrent(concurrenttasks=10)
ConcurrentTasks == 10

\* Python's round(n / d) for n >= 0 and d > 0: a tie goes to the even
\* neighbour.
Round(n, d) ==
    LET q == n \div d
        m == n % d
    IN  IF 2 * m < d THEN q
        ELSE IF 2 * m > d THEN q + 1
        ELSE IF q % 2 = 0 THEN q ELSE q + 1

\* round(can_update / (6 if force else 3)), without the `or 1`
Concurrency_NoFloor(can_update, forced) ==
    Round(can_update, IF forced THEN 6 ELSE 3)

\* round(can_update / (6 if force else 3)) or 1
Concurrency(can_update, forced) ==
    LET n == Round(can_update, IF forced THEN 6 ELSE 3)
    IN  IF n = 0 THEN 1 ELSE n

\* The repositories get_category_repositories goes through.
CategoryList(category, list) ==
    IF category = "integration" THEN Append(list, "hacs/integration")
    ELSE list

\* The tasks get_category_repositories adds for the entries i.. of the
\* list: an update for a known repository, a registration otherwise.
RECURSIVE CategoryTasks(_, _, _, _)
CategoryTasks(list, i, rem, reg) ==
    IF i > Len(list) THEN <<>>
    ELSE IF list[i] \in rem THEN CategoryTasks(list, i + 1, rem, reg)
    ELSE <<[id |-> i, repo |-> list[i],
            op |-> IF list[i] \in reg THEN "update" ELSE "register"]>>
         \o CategoryTasks(list, i + 1, rem, reg)

\* generate_data_for_category up to the first call of _handle_queue: the
\* stored data is registered, the queue is cleared and filled.
GenerateStart ==
    /\ gpc = "start"
    /\ \E list \in ListsUpTo(MaxList), rem \in SUBSET Names,
          base \in SUBSET Names :
         LET reg == IF force THEN {} ELSE base \ rem
         IN  /\ default_list' = list
             /\ removed' = rem
             /\ known' = reg
             /\ queue' = CategoryTasks(CategoryList(q_category, list), 1,
                                       rem, reg)
    /\ frames' = <<[at |-> "enter", can_update |-> 0]>>
    /\ gpc' = "handle"
    /\ UNCHANGED <<force, q_category, q_running, gathered, entered, sleeps,
                   content>>
    /\ UNCHANGED NonQueueVars

Top == frames[Len(frames)]

SetTop(f) == [frames EXCEPT ![Len(frames)] = f]

\* The stack after the call on top of it has returned: the caller goes on
\* behind its call.
Popped ==
    LET rest == SubSeq(frames, 1, Len(frames) - 1)
    IN  IF rest = <<>> THEN rest
        ELSE [rest EXCEPT ![Len(rest)].at =
                IF @ = "after_sleep" THEN "execute" ELSE "return"]

\* A call of _handle_queue returns.
Return ==
    /\ frames' = Popped
    /\ gpc' = IF Popped = <<>> THEN "export" ELSE gpc

\* _handle_queue that returns while one task is still pending.
HandleEnter_LeavesLast ==
    /\ gpc = "handle"
    /\ Top.at = "enter"
    /\ IF Len(queue) <= 1
       THEN Return
       ELSE /\ frames' = SetTop([Top EXCEPT !.at = "read"])
            /\ UNCHANGED gpc
    /\ UNCHANGED <<force, q_category, default_list, removed, known, queue,
                   q_running, gathered, entered, sleeps, content>>
    /\ UNCHANGED NonQueueVars

\* _handle_queue is entered: it returns when no task is pending.
HandleEnter ==
    /\ gpc = "handle"
    /\ Top.at = "enter"
    /\ IF Len(queue) = 0
       THEN Return
       ELSE /\ frames' = SetTop([Top EXCEPT !.at = "read"])
            /\ UNCHANGED gpc
    /\ UNCHANGED <<force, q_category, default_list, removed, known, queue,
                   q_running, gathered, entered, sleeps, content>>
    /\ UNCHANGED NonQueueVars

\* can_update = await self.async_can_update()
HandleRead ==
    /\ gpc = "handle"
    /\ Top.at = "read"
    /\ \E quota \in 0..MaxQuota :
         /\ quota = 0 => sleeps < MaxSleeps
         /\ frames' = SetTop([at |-> IF quota = 0 THEN "sleep" ELSE "execute",
                              can_update |-> quota])
         /\ sleeps' = IF quota = 0 THEN sleeps + 1 ELSE sleeps
    /\ UNCHANGED <<force, q_category, default_list, removed, known, queue,
                   q_running, gathered, entered, gpc, content>>
    /\ UNCHANGED NonQueueVars

\* A _handle_queue that goes on to execute when the sleep is over,
\* without calling itself.
HandleSleep_NoReread ==
    /\ gpc = "handle"
    /\ Top.at = "sleep"
    /\ frames' = SetTop([Top EXCEPT !.at = "execute"])
    /\ UNCHANGED <<force, q_category, default_list, removed, known, queue,
                   q_running, gathered, entered, gpc, sleeps, content>>
    /\ UNCHANGED NonQueueVars

\* The sleep is over: _handle_queue calls itself.
HandleSleep ==
    /\ gpc = "handle"
    /\ Top.at = "sleep"
    /\ frames' = Append(SetTop([Top EXCEPT !.at = "after_sleep"]),
                        [at |-> "enter", can_update |-> 0])
    /\ UNCHANGED <<force, q_category, default_list, removed, known, queue,
                   q_running, gathered, entered, gpc, sleeps, content>>
    /\ UNCHANGED NonQueueVars

\* The first n elements of a sequence.
FirstN(seq, n) == SubSeq(seq, 1, IF n < Len(seq) THEN n ELSE Len(seq))

\* The elements of a sequence behind the first n.
DropN(seq, n) == SubSeq(seq, (IF n < Len(seq) THEN n ELSE Len(seq)) + 1,
                        Len(seq))

\* await self.queue.execute(n): a drain that is already running makes it
\* raise, and _handle_queue returns; an empty queue makes it return at
\* once; otherwise the first n tasks are checked out and gathered.
HandleExecute ==
    /\ gpc = "handle"
    /\ Top.at = "execute"
    /\ LET n == Concurrency(Top.can_update, force)
       IN  IF q_running
           THEN /\ Return
                /\ UNCHANGED <<queue, q_running, gathered>>
           ELSE IF queue = <<>>
           THEN /\ frames' = Append(SetTop([Top EXCEPT !.at = "tail"]),
                                    [at |-> "enter", can_update |-> 0])
                /\ UNCHANGED <<queue, q_running, gathered, gpc>>
           ELSE /\ q_running' = TRUE
                /\ gathered' = Range(FirstN(queue, n))
                /\ queue' = DropN(queue, n)
                /\ frames' = SetTop([Top EXCEPT !.at = "drain"])
                /\ UNCHANGED gpc
    /\ UNCHANGED <<force, q_category, default_list, removed, known, entered,
                   sleeps, content>>
    /\ UNCHANGED NonQueueVars

\* A gathered task passes the semaphore of its decorator and enters its
\* operation.
TaskEnter(t) ==
    /\ t \in gathered \ entered
    /\ Cardinality({e \in entered : e.op = t.op}) < ConcurrentTasks
    /\ entered' = entered \cup {t}
    /\ UNCHANGED <<force, q_category, default_list, removed, known, queue,
                   q_running, gathered, gpc, frames, sleeps, content>>
    /\ UNCHANGED NonQueueVars

\* The operation of a task ends: a registration that succeeded has added
\* the repository.
TaskExit(t) ==
    /\ t \in entered
    /\ entered' = entered \ {t}
    /\ gathered' = gathered \ {t}
    /\ \E ok \in BOOLEAN :
         known' = IF t.op = "register" /\ ok THEN known \cup {t.repo}
                  ELSE known
    /\ UNCHANGED <<force, q_category, default_list, removed, queue,
                   q_running, gpc, frames, sleeps, content>>
    /\ UNCHANGED NonQueueVars

\* Every gathered task has ended: execute() returns and _handle_queue
\* calls itself.
HandleDrained ==
    /\ gpc = "handle"
    /\ Top.at = "drain"
    /\ gathered = {}
    /\ q_running' = FALSE
    /\ frames' = Append(SetTop([Top EXCEPT !.at = "tail"]),
                        [at |-> "enter", can_update |-> 0])
    /\ UNCHANGED <<force, q_category, default_list, removed, known, queue,
                   gathered, entered, gpc, sleeps, content>>
    /\ UNCHANGED NonQueueVars

\* The call behind which nothing is left to do returns.
HandleReturn ==
    /\ gpc = "handle"
    /\ Top.at = "return"
    /\ Return
    /\ UNCHANGED <<force, q_category, default_list, removed, known, queue,
                   q_running, gathered, entered, sleeps, content>>
    /\ UNCHANGED NonQueueVars

\* The repositories of the category are stored in the export.
Export ==
    /\ gpc = "export"
    /\ content' = known
    /\ gpc' = "done"
    /\ UNCHANGED <<force, q_category, default_list, removed, known, queue,
                   q_running, gathered, entered, frames, sleeps>>
    /\ UNCHANGED NonQueueVars

\* Two registered repositories that are not installed; no pass is
\* running.
InitBatch ==
    /\ action = FALSE
    /\ system_running = TRUE
    /\ check_files = CheckFiles
    /\ InitQueueIdle
    /\ \E s \in {x \in StoredRepository :
                    /\ ~x.d.installed /\ x.d.category = "integration"
                    /\ ~x.d.zip_release /\ x.d.homeassistant = None
                    /\ x.d.persistent_directory = None
                    /\ x.d.last_version = None /\ x.rel = <<>>
                    /\ ~x.single} :
         InitRepositories([r \in Repos |-> s])
    /\ local_path = [r \in Repos |-> r]
    /\ InitRemote([r \in DOMAIN data |-> "e1"])
    /\ InitManaged
    /\ batch = NoBatch
    /\ exported = <<>>
    /\ reloaded = <<>>
    /\ element = NoElement

NextBatch ==
    \/ PassStart
    \/ \E r \in DOMAIN data : PassUpdate(r)
    \/ PassDiscover
    \/ \E r \in DOMAIN data : PassRegister(r)
    \/ PassPersist
    \/ \E r \in DOMAIN data : update_element(r)
    \/ \E r \in DOMAIN data : remove(r)

SpecBatch == InitBatch /\ [][NextBatch]_vars

\* Two repositories of the same stored record, the registered ones being
\* one of the sets given.
InitRecords(stored, registered) ==
    /\ action = FALSE
    /\ system_running = TRUE
    /\ check_files = CheckFiles
    /\ InitQueueIdle
    /\ \E s \in {x \in stored :
                    /\ x.d.category = "integration"
                    /\ ~x.d.zip_release /\ x.d.homeassistant = None
                    /\ x.d.persistent_directory = None
                    /\ x.d.last_version = None /\ x.rel = <<>>
                    /\ ~x.single} :
         InitRepositories([r \in Repos |-> s])
    /\ local_path = [r \in Repos |-> r]
    /\ InitRemote([r \in DOMAIN data |-> "e1"])
    /\ repositories \in registered
    /\ registered_log = repositories
    /\ path_safe = [r \in DOMAIN data |-> TRUE]
    /\ theme_file = [r \in DOMAIN data |-> FALSE]
    /\ store_entry = [r \in DOMAIN data |-> data[r].installed]
    /\ pending_restart = [r \in DOMAIN data |-> FALSE]
    /\ batch = NoBatch
    /\ exported = <<>>
    /\ reloaded = <<>>
    /\ element = NoElement

\* update_repositories and recuring_tasks(installed_only=True) over two
\* repositories, installed or not.
InitTasks == InitRecords(StoredRepository, SUBSET Repos)

NextTasks ==
    \/ PassStart
    \/ \E r \in DOMAIN data : PassUpdate(r)
    \/ PassDiscover
    \/ \E r \in DOMAIN data : PassRegister(r)
    \/ PassPersist
    \/ RecurStart
    \/ \E r \in DOMAIN data : RecurUpdate(r)

SpecTasks == InitTasks /\ [][NextTasks]_vars

\* update_repositories and calls of register_new_repository over two
\* repositories that are not installed.
InitRegister ==
    InitRecords({x \in StoredRepository : ~x.d.installed}, {{}, {"r1"}})

NextRegister ==
    \/ PassStart
    \/ \E r \in DOMAIN data : PassUpdate(r)
    \/ PassDiscover
    \/ \E r \in DOMAIN data : PassRegister(r)
    \/ PassPersist
    \/ \E r \in DOMAIN data : RegisterNew(r)

SpecRegister == InitRegister /\ [][NextRegister]_vars

\* startup_tasks beside update_repositories.
InitStartup ==
    InitRecords({x \in StoredRepository : ~x.d.installed}, SUBSET Repos)

NextStartup ==
    \/ StartupBegin
    \/ StartupEnd
    \/ PassStart
    \/ \E r \in DOMAIN data : PassUpdate(r)
    \/ PassDiscover
    \/ \E r \in DOMAIN data : PassRegister(r)
    \/ PassPersist

SpecStartup == InitStartup /\ [][NextStartup]_vars

\* A repository that is registered in interactive mode, refreshed and
\* exported.
InitExport ==
    /\ action = FALSE
    /\ system_running = TRUE
    /\ check_files = CheckFiles
    /\ InitQueueIdle
    /\ \E s \in {x \in NewRepository : x.d.category = "plugin"},
          e \in {None, "e1"} :
         /\ InitRepositories("r1" :> s)
         /\ InitRemote("r1" :> e)
    /\ local_path = ("r1" :> None)
    /\ batch = NoBatch
    /\ exported = <<>>
    /\ reloaded = <<>>
    /\ element = NoElement
    /\ InitManaged

NextExport ==
    \/ \E r \in DOMAIN data : Register(r)
    \/ \E r \in DOMAIN data : Refresh(r)
    \/ \E r \in DOMAIN data : async_store_repository_data(r)

SpecExport == InitExport /\ [][NextExport]_vars

\* A repository as the store restores it, installed or not, that is
\* exported and loaded again.
InitRoundTrip ==
    /\ action = FALSE
    /\ system_running = TRUE
    /\ check_files = CheckFiles
    /\ InitQueueIdle
    /\ \E s \in StoredRepository : InitRepositories("r1" :> s)
    /\ local_path = ("r1" :> "r1")
    /\ InitRemote("r1" :> "e1")
    /\ batch = NoBatch
    /\ exported = <<>>
    /\ reloaded = <<>>
    /\ element = NoElement
    /\ InitManaged

NextRoundTrip ==
    \/ \E r \in DOMAIN data : async_store_repository_data(r)
    \/ \E r \in DOMAIN data : RestoreExported(r)

SpecRoundTrip == InitRoundTrip /\ [][NextRoundTrip]_vars

\* A plugin Element as its constructor leaves it.
InitElement ==
    /\ action = FALSE
    /\ system_running = TRUE
    /\ check_files = CheckFiles
    /\ InitQueueIdle
    /\ InitRepositories(<<>>)
    /\ local_path = <<>>
    /\ InitRemote(<<>>)
    /\ batch = NoBatch
    /\ exported = <<>>
    /\ reloaded = <<>>
    /\ \E name \in ElementNames : element = [NoElement EXCEPT !.name = name]
    /\ InitManaged

NextElement ==
    \/ fetch_github_element_content_plugin

SpecElement == InitElement /\ [][NextElement]_vars

\* One run of generate_data_for_category.
InitQueue ==
    /\ action = TRUE
    /\ system_running = TRUE
    /\ check_files = CheckFiles
    /\ InitRepositories(<<>>)
    /\ local_path = <<>>
    /\ InitRemote(<<>>)
    /\ batch = NoBatch
    /\ exported = <<>>
    /\ reloaded = <<>>
    /\ element = NoElement
    /\ InitManaged
    /\ force \in BOOLEAN
    /\ q_category \in {"integration", "plugin"}
    /\ default_list = <<>>
    /\ removed = {}
    /\ known = {}
    /\ queue = <<>>
    /\ q_running = FALSE
    /\ gathered = {}
    /\ entered = {}
    /\ gpc = "start"
    /\ frames = <<>>
    /\ sleeps = 0
    /\ content = {}

NextQueue ==
    \/ GenerateStart
    \/ HandleEnter
    \/ HandleRead
    \/ HandleSleep
    \/ HandleExecute
    \/ \E t \in gathered : TaskEnter(t)
    \/ \E t \in entered : TaskExit(t)
    \/ HandleDrained
    \/ HandleReturn
    \/ Export

SpecQueue == InitQueue /\ [][NextQueue]_vars

\* The run under the scheduling of the event loop: a coroutine that can go
\* on is resumed, and every operation of a task ends.
FairQueue == WF_vars(NextQueue)

SpecQueueFair == SpecQueue /\ FairQueue

\* ----------------------------------------------------------------------
\* Properties of the data generator
\* ----------------------------------------------------------------------

\* The tasks that are inside their operation for a repository.
EnteredFor(name) == {t \in entered : t.repo = name}

\* C7: no two operations for the same repository are ever inside their
\* operation at the same time, also when the list of the category queues
\* more than one operation for a repository.
C7_OneOperationPerRepository ==
    \A name \in Names : Cardinality(EnteredFor(name)) <= 1

\* ----------------------------------------------------------------------
\* Properties of uninstall
\* ----------------------------------------------------------------------

\* The entries of the uninstall log that delete a file or a directory.
Deletions == {"remove_theme_file", "remove"}

\* C11, as the specification states it: nothing is deleted before the path
\* check has passed, and nothing is deleted by an uninstall the check
\* blocks. The theme file is removed before the check, so this is violated.
C11_NoDeletionBeforeCheck ==
    \A r \in DOMAIN data :
       /\ \A i \in 1..Len(ulog[r]) :
             ulog[r][i] \in Deletions =>
                \E j \in 1..(i - 1) : ulog[r][j] = "is_safe"
       /\ (\E i \in 1..Len(ulog[r]) : ulog[r][i] = "blocked") =>
             \A i \in 1..Len(ulog[r]) : ulog[r][i] \notin Deletions

\* An entry of the uninstall log.
Logged(r, e) == \E i \in 1..Len(ulog[r]) : ulog[r][i] = e

\* An uninstall that raised has left installed, installed_version,
\* installed_commit and pending_restart as they were, has fired no
\* uninstall event and has not removed the store entry.
RaisedKeepsState(r) ==
    uresult[r] = "raised" =>
       /\ upc[r] = "idle"
       /\ data[r].installed = upre[r].installed
       /\ data[r].installed_version = upre[r].installed_version
       /\ data[r].installed_commit = upre[r].installed_commit
       /\ pending_restart[r] = upre[r].pending_restart
       /\ store_entry[r] = upre[r].store_entry
       /\ ~Logged(r, "event_uninstall")
       /\ ~Logged(r, "remove_store")

\* An uninstall has been called on the repository since its history was
\* last dropped.
UninstallCalled(r) == upc[r] # "idle" \/ uresult[r] # "none"

\* C12, as the specification states it: an uninstall of a repository whose
\* path is unsafe, or whose removal fails, raises and leaves the state as
\* it was. An unsafe path that does not exist is never checked, so this is
\* violated.
C12_FailedUninstallKeepsState ==
    \A r \in DOMAIN data :
       /\ (UninstallCalled(r) /\ (~path_safe[r] \/ Logged(r, "failed"))) =>
             uresult[r] = "raised"
       /\ RaisedKeepsState(r)

\* The part of C12 that holds: an uninstall whose existing local path the
\* safety check rejects, or whose removal raises, raises and leaves
\* installed, installed_version, installed_commit and pending_restart as
\* they were, fires no uninstall event and does not remove the store entry.
C12_BlockedUninstallKeepsState ==
    \A r \in DOMAIN data :
       /\ (Logged(r, "blocked") \/ Logged(r, "failed")) =>
             uresult[r] = "raised"
       /\ RaisedKeepsState(r)

\* The uninstall of an installed repository was blocked by the path check.
C12_BlockedWitness ==
    \E r \in DOMAIN data :
       /\ uresult[r] = "raised"
       /\ Logged(r, "blocked")
       /\ upre[r].installed
       /\ upre[r].store_entry
       /\ upre[r].installed_commit # None

\* C13, as the specification states it: the wait for the local path to
\* disappear is bounded, so an uninstall never begins its MaxWaits-th
\* sleep: it has failed before. The loop has no bound and no failure, so
\* this is violated, whatever MaxWaits is.
C13_UninstallWaitIsBounded ==
    \A r \in DOMAIN data : upc[r] = "wait" => waits[r] < MaxWaits

\* How many times the entry is in the uninstall log.
LoggedTimes(r, e) == Cardinality({i \in 1..Len(ulog[r]) : ulog[r][i] = e})

C15_InstalledHasVersionOrCommit ==
    \A r \in DOMAIN data :
       data[r].installed =>
          data[r].installed_version # None \/ data[r].installed_commit # None

\* C16, as the specification states it: no step changes the category of a
\* record. A manifest with the key "category" changes it, so this is
\* violated.
C16_CategoryNeverChanges ==
    [][\A r \in DOMAIN data : data'[r].category = data[r].category]_vars

\* C17: every record that was registered is in the record set, unless
\* remove() has unregistered it since it was last registered: no update,
\* refresh, install or uninstall, failed or skipped, drops it.
C17_RemovedOnlyByRemove ==
    /\ registered_log \subseteq repositories \cup unregistered
    /\ repositories \cap unregistered = {}

\* A registered, installed record whose uninstall has raised is still in
\* the record set.
C17_Witness ==
    \E r \in repositories :
       /\ r \in registered_log
       /\ r \notin unregistered
       /\ uresult[r] = "raised"
       /\ data[r].installed

\* ----------------------------------------------------------------------
\* Properties of the status
\* ----------------------------------------------------------------------

\* C18: the status shown is the first match of new, pending restart,
\* pending update, installed, and "default" when none matches; the action
\* shown is INSTALL for new and default, REINSTALL for installed and
\* pending-restart, UPGRADE for pending-upgrade.
C18_StatusFirstMatch ==
    \A r \in DOMAIN data :
       status[r] # "none" =>
          LET n == data[r].new
              pr == pending_restart[r]
              pu == pending_update(data[r])
              i == data[r].installed
          IN  /\ n => status[r] = "new"
              /\ (~n /\ pr) => status[r] = "pending-restart"
              /\ (~n /\ ~pr /\ pu) => status[r] = "pending-upgrade"
              /\ (~n /\ ~pr /\ ~pu /\ i) => status[r] = "installed"
              /\ (~n /\ ~pr /\ ~pu /\ ~i) => status[r] = "default"
              /\ status[r] \in {"new", "default"} =>
                    shown_action[r] = "INSTALL"
              /\ status[r] \in {"installed", "pending-restart"} =>
                    shown_action[r] = "REINSTALL"
              /\ status[r] = "pending-upgrade" => shown_action[r] = "UPGRADE"
              /\ status[r] \in {"new", "default", "installed",
                                 "pending-restart", "pending-upgrade"}

\* An installed record with a pending restart and a pending update is
\* shown as pending-restart, with the action REINSTALL.
C18_Witness ==
    \E r \in DOMAIN data :
       /\ ~data[r].new
       /\ data[r].installed
       /\ pending_restart[r]
       /\ pending_update(data[r])
       /\ status[r] = "pending-restart"
       /\ shown_action[r] = "REINSTALL"

\* The manifest declares a minimum host version higher than the version
\* of the running host.
HostTooOld(d) ==
    /\ d.homeassistant # None
    /\ version_left_higher_then_right(d.homeassistant, HaVersion)

\* C19, as the specification states it: a record whose manifest declares a
\* minimum host version higher than the running host can not be
\* downloaded and has no pending update. can_download compares the
\* versions only for a record with releases, so this is violated.
C19_HostTooOldBlocksDownload ==
    \A r \in DOMAIN data :
       HostTooOld(data[r]) =>
          /\ ~can_download(data[r])
          /\ ~pending_update(data[r])

\* ----------------------------------------------------------------------
\* Properties of the compatibility check of install
\* ----------------------------------------------------------------------

\* The steps of an install attempt after the compatibility check.
PastCompatibilityCheck(r) ==
    pc[r] \in {"backup", "download", "restore", "cleanup",
               "persistent_restore", "persistent_cleanup", "finish", "post"}

ReleaseTracked(d) ==
    /\ d.installed
    /\ can_download(d)
    /\ d.releases
    /\ d.selected_tag = None
    /\ d.installed_version # None
    /\ d.last_version # None

\* C21, as the specification states it: for such a record pending_update
\* is true when the available version is higher than the installed one,
\* false when the installed one is higher, and false when both are the
\* same string. An installed version that is higher differs from the
\* available one, and pending_update is true for any difference, so this
\* is violated.
C21_UpgradeAntisymmetric ==
    \A r \in DOMAIN data :
       ReleaseTracked(data[r]) =>
          LET a == data[r].last_version
              b == data[r].installed_version
          IN  /\ version_left_higher_then_right(a, b) =>
                    pending_update(data[r])
              /\ version_left_higher_then_right(b, a) =>
                    ~pending_update(data[r])
              /\ a = b => ~pending_update(data[r])

\* C22: for an installed record that can be downloaded and whose selected
\* ref is the default branch, pending_update is true exactly when the
\* installed commit differs from the last commit, whatever the versions.
C22_BranchTrackingComparesCommits ==
    \A r \in DOMAIN data :
       (/\ data[r].installed
        /\ can_download(data[r])
        /\ data[r].selected_tag # None
        /\ data[r].selected_tag = data[r].default_branch) =>
          /\ pending_update(data[r]) =
                (data[r].installed_commit # data[r].last_commit)
          /\ (status[r] = "pending-upgrade") =>
                data[r].installed_commit # data[r].last_commit

\* A record that tracks its default branch at the last commit, with an
\* available version higher than the installed one, is shown as installed.
C22_Witness ==
    \E r \in DOMAIN data :
       /\ data[r].installed
       /\ can_download(data[r])
       /\ data[r].selected_tag = data[r].default_branch
       /\ data[r].installed_commit = data[r].last_commit
       /\ data[r].installed_version = "1.0.0"
       /\ data[r].last_version = "2024.1.0"
       /\ ~pending_restart[r]
       /\ status[r] = "installed"

\* C23, as the specification states it: a record with no available version
\* and no available commit has no pending update. For an installed record
\* the installed version or commit differs from the empty string that
\* stands for the available one, so this is violated.
C23_NothingAvailableNoUpdate ==
    \A r \in DOMAIN data :
       (data[r].last_version = None /\ data[r].last_commit = None) =>
          /\ ~pending_update(data[r])
          /\ status[r] # "pending-upgrade"

\* ----------------------------------------------------------------------
\* Properties of the refresh
\* ----------------------------------------------------------------------

\* Two calls of common_update(force=False) or more were made in a row
\* while the remote had not changed.
CalledTwice(r) == Len(quiet[r]) >= 2

\* C24, as the specification states it: of two such calls each reports
\* unchanged, and the second changes no field of the record, whether the
\* record is installed or not. For an installed record the early return
\* is not taken and every call reports an update, so this is violated.
C24_RefreshIdempotent ==
    \A r \in DOMAIN data :
       CalledTwice(r) =>
          /\ \A i \in 1..Len(quiet[r]) : quiet[r][i] = "unchanged"
          /\ data[r] = rprev[r]

\* C24, amended: of two calls of common_update(force=False) made in a row
\* with no remote change, the second changes no field of the record,
\* whether the record is installed or not; for a record that is not
\* installed each of the calls reports unchanged.
C24_RefreshIdempotentNotInstalled ==
    \A r \in DOMAIN data :
       CalledTwice(r) =>
          /\ data[r] = rprev[r]
          /\ ~data[r].installed =>
                \A i \in 1..Len(quiet[r]) : quiet[r][i] = "unchanged"

\* Two calls in a row for a record that is not installed.
C24_Witness ==
    \E r \in DOMAIN data :
       /\ CalledTwice(r)
       /\ ~data[r].installed
       /\ etag_repository[r] = remote[r].etag
       /\ rresult[r] = "unchanged"


-----------------------------------------------------------------------------
\* Properties of the registration

\* A registration that went through: the local path of the record is set,
\* which async_registration does after common_registration returned.
Registered(r) == local_path[r] # None

\* C25: in an automated run a registration never goes through for a
\* record whose description is missing or empty, on every path of
\* common_registration, the one where the remote answers NotModified
\* included.
C25_MissingDescriptionFatal ==
    \A r \in DOMAIN data :
        (action /\ Registered(r)) => data[r].description \notin {None, ""}

\* C26: a refresh that reads a malformed manifest fails, in interactive as
\* well as in automated mode.
C26_MalformedManifestFails ==
    \A r \in DOMAIN data : rread[r] = "invalid" => rresult[r] = "raised"

-----------------------------------------------------------------------------
\* Properties of the drain of the data generator

\* The operations that were queued and have not ended.
PendingOperations == Range(queue) \cup gathered

\* generate_data_for_category is at or behind the loop that builds the
\* export.
ExportReached == gpc \in {"export", "done"}

-----------------------------------------------------------------------------
\* Properties of the update pass and of the store

\* The step writes to the store.
StoreWritten == batch'.writes # batch.writes

\* The step is the end of a pass of update_repositories, behind its two
\* loops.
PassCompleted ==
    /\ batch.at = "register" /\ batch.found = {}
    /\ batch'.at = "ended"

\* C28: the store is written once per batch: every write to the store is
\* the last step of a pass that has gone through its repositories, and
\* no operation on a single repository writes to it.
C28_PersistOncePerBatch == [][StoreWritten => PassCompleted]_vars

\* C29: one bad repository never blocks the batch: whatever the update or
\* the registration of a repository ended with, a pass of
\* update_repositories that is over has gone through every registered and
\* every discovered repository and has written to the store.
C29_BadRepositoryNeverBlocks ==
    batch.at = "ended" =>
        /\ batch.todo = {}
        /\ batch.found = {}
        /\ batch.persisted

-----------------------------------------------------------------------------
\* Properties of the export

\* No key of the mapping is written with the value null.
NoNullValue(mapping) == \A k \in DOMAIN mapping : mapping[k] # None

\* C30: in the exported data of a repository an absent optional field is
\* omitted: no key of the data or of its manifest is present with the
\* value null, whatever the fields of the record are.
C30_AbsentFieldsOmitted ==
    \A r \in DOMAIN exported :
        /\ NoNullValue(exported[r].data)
        /\ NoNullValue(exported[r].manifest)

-----------------------------------------------------------------------------
\* Properties of the round trip through the exported data

\* The fields that hold the installed and the available version.
VersionFields ==
    {"installed_version", "installed_commit", "last_version", "last_commit"}

-----------------------------------------------------------------------------
\* Properties of the quota of the data generator

\* A call of _handle_queue whose quota reading was zero.
ZeroReading(f) == f.can_update = 0

\* C32: a quota of zero read while tasks are pending is slept on and
\* read again: no call of _handle_queue is inside a drain it started on
\* a reading of zero, and the call that comes to execute with a reading
\* of zero finds no task pending.
C32_NoDrainOnZeroQuota ==
    \A i \in DOMAIN frames :
        /\ frames[i].at = "sleep" => ZeroReading(frames[i])
        /\ frames[i].at = "drain" => ~ZeroReading(frames[i])
        /\ (frames[i].at = "execute" /\ ZeroReading(frames[i])) =>
               queue = <<>>

\* The call that slept on a reading of zero is back from the call that
\* read the quota again and drained the queue, and is about to execute.
C32_Witness ==
    /\ gpc = "handle"
    /\ frames # <<>>
    /\ Top.at = "execute"
    /\ ZeroReading(Top)
    /\ sleeps > 0
    /\ known # {}

\* The concurrency a call of _handle_queue passes to execute lies between
\* 1 and the quota the call has read.
WithinQuota(f) ==
    LET n == Concurrency(f.can_update, force)
    IN  n >= 1 /\ n <= f.can_update

\* C33, as stated: the concurrency passed to execute is at least 1 and at
\* most the quota the call has read, for every call of execute.
C33_ConcurrencyWithinQuota ==
    \A i \in DOMAIN frames :
        frames[i].at \in {"execute", "drain"} => WithinQuota(frames[i])

\* C33, amended: the concurrency is at least 1 and at most the quota the
\* call has read for every call of execute over pending tasks, and the
\* drain it starts runs no more tasks than that; the call of execute
\* behind a sleep, made on the reading of zero, finds the queue empty.
C33_ConcurrencyWithinQuotaWhenPending ==
    \A i \in DOMAIN frames :
        /\ (frames[i].at = "execute" /\ queue # <<>>) =>
               WithinQuota(frames[i])
        /\ frames[i].at = "drain" =>
               /\ WithinQuota(frames[i])
               /\ Cardinality(gathered) <=
                     Concurrency(frames[i].can_update, force)

\* A run is inside a drain of more than one task at once, started on the
\* largest quota.
C33_Witness ==
    /\ gpc = "handle"
    /\ frames # <<>>
    /\ Top.at = "drain"
    /\ Top.can_update = MaxQuota
    /\ Cardinality(gathered) = Concurrency(MaxQuota, force)
    /\ Cardinality(gathered) > 1

-----------------------------------------------------------------------------
\* Properties of the check registry

\* The step is a run of the executor job load_repository_checks.
LoadRuns == \E r \in DOMAIN vpc : vpc[r] = "load" /\ vpc'[r] = "select"

\* C34: the registry is populated once: every run of the load starts on
\* the empty registry, also when two first calls have both seen it empty,
\* and no step changes a registry that is populated.
C34_RegistryLoadedOnce ==
    [][/\ LoadRuns => DOMAIN RULES = {}
       /\ DOMAIN RULES # {} => RULES' = RULES]_vars

-----------------------------------------------------------------------------
\* Properties of the persistent directory

\* The attempt of r is past the restore of the persistent directory.
AfterPersistentRestore(r) ==
    \/ pc[r] \in {"persistent_cleanup", "finish", "post"}
    \/ pc[r] = "idle" /\ outcome[r] = "returned"

\* C35: when a snapshot of the persistent directory was taken, it is
\* restored after the download and after the restore of the main
\* content, when there is one, whether the download left errors or not,
\* and its cleanup follows its restore.
C35_PersistentRestoredLast ==
    \A r \in DOMAIN data :
       IndexOf(oplog[r], "create_persistent") # 0 =>
          /\ AfterPersistentRestore(r) =>
                /\ Followed(oplog[r], "create_persistent",
                            "restore_persistent")
                /\ IndexOf(oplog[r], "download") # 0 =>
                      Followed(oplog[r], "download", "restore_persistent")
                /\ IndexOf(oplog[r], "restore_main") # 0 =>
                      Followed(oplog[r], "restore_main", "restore_persistent")
                /\ IndexOf(oplog[r], "cleanup_main") # 0 =>
                      Followed(oplog[r], "cleanup_main", "restore_persistent")
          /\ IndexOf(oplog[r], "restore_persistent") # 0 =>
                AfterDownload(r) /\ pc[r] \notin {"restore", "cleanup"}
          /\ IndexOf(oplog[r], "cleanup_persistent") # 0 =>
                Followed(oplog[r], "restore_persistent", "cleanup_persistent")

\* An attempt whose download left an error has restored the main content,
\* then the persistent directory, and has cleaned up its snapshot.
C35_Witness ==
    \E r \in DOMAIN data :
       /\ errors[r] # <<>>
       /\ Followed(oplog[r], "create_persistent", "download")
       /\ Followed(oplog[r], "download", "restore_main")
       /\ Followed(oplog[r], "restore_main", "restore_persistent")
       /\ Followed(oplog[r], "restore_persistent", "cleanup_persistent")

-----------------------------------------------------------------------------
\* Properties of the content of a plugin

\* The first of the root, the last release and dist/ that holds the
\* expected file, None when none of them does.
FirstMatch(name, listed) ==
    IF FoundIn("root", name, listed[1]) THEN "root"
    ELSE IF FoundIn("release", name, listed[2]) THEN "release"
    ELSE IF FoundIn("dist", name, listed[3]) THEN "dist"
    ELSE None

\* C36: for a plugin whose content location is not resolved yet, the
\* location selected is the first of the root, the assets of the last
\* release and dist/ that holds the expected file: a later location
\* never replaces an earlier match.
C36_FirstLocationSelected ==
    (element.listed # <<>> /\ element.before = None) =>
        element.path = FirstMatch(element.name, element.listed)

-----------------------------------------------------------------------------
\* Properties of the loops over the registered repositories

\* C37: a step of update_repositories or of recuring_tasks calls update()
\* only on a registered repository whose track flag is false and whose
\* name is not on the blacklist, and the installed-only loop only on an
\* installed one; a repository whose track flag is true is not updated.
C37_UpdateOnlyUntracked ==
    batch.call # NoCall =>
        /\ batch.call.registered
        /\ ~batch.call.track
        /\ ~batch.call.listed
        /\ batch.call.loop = "installed" => batch.call.installed

\* The installed-only loop has called update() on an installed
\* repository while a pass of update_repositories is in its first loop.
C37_Witness ==
    /\ batch.call # NoCall
    /\ batch.call.loop = "installed"
    /\ batch.call.installed
    /\ batch.at = "update"

-----------------------------------------------------------------------------
\* Properties of register_new_repository

\* The last call was given a category with a class and the setup of the
\* repository returned.
RegSucceeded ==
    batch.reg.element_type \in ElementTypes /\ batch.reg.result = "setup"

\* The last call was given a category with a class and the setup of the
\* repository raised an exception that is caught.
RegFailed ==
    batch.reg.element_type \in ElementTypes
        /\ batch.reg.result = "setup_failed"

\* C38: a call of register_new_repository adds the repository to the
\* registered set iff its setup succeeded, and its name to the blacklist
\* iff the setup failed with an error that is caught, and no name is
\* appended to a blacklist that holds it; for a category it has no class
\* for it returns False and changes neither the registered set nor the
\* blacklist; and a pass of discovery makes no call for a name on the
\* blacklist.
C38_RegisteredOrBlacklisted ==
    /\ ~batch.twice
    /\ batch.reg # NoReg =>
          /\ RegSucceeded => batch.reg.registered
          /\ (batch.reg.registered /\ ~batch.reg.was_registered)
                => RegSucceeded
          /\ RegFailed => batch.reg.listed
          /\ (batch.reg.listed /\ ~batch.reg.was_listed) => RegFailed
          /\ ~batch.reg.registered => ~batch.reg.was_registered
          /\ ~batch.reg.listed => ~batch.reg.was_listed
          /\ batch.reg.element_type \notin ElementTypes =>
                /\ batch.reg.returned = "False"
                /\ batch.reg.registered = batch.reg.was_registered
                /\ batch.reg.listed = batch.reg.was_listed
          /\ batch.reg.in_pass => ~batch.reg.was_listed

\* A pass of discovery has registered a repository while another name
\* is on the blacklist.
C38_Witness ==
    /\ batch.reg # NoReg
    /\ batch.reg.in_pass
    /\ RegSucceeded
    /\ ~batch.reg.was_registered
    /\ blacklist # {}

-----------------------------------------------------------------------------
\* Properties of task_running

\* A call of startup_tasks or of update_repositories is under way.
PassInProgress ==
    batch.at \in {"update", "register"} \/ batch.startup = "running"

\* A call of startup_tasks or of update_repositories is over.
PassEnded == batch.at = "ended" \/ batch.startup = "ended"

\* C39: task_running is true while a call of startup_tasks or of
\* update_repositories is under way, and it is false once every such
\* call is over, however the call ended.
C39_TaskRunningTracksPasses ==
    /\ PassInProgress => batch.task_running
    /\ (PassEnded /\ ~PassInProgress) => ~batch.task_running

-----------------------------------------------------------------------------
\* Properties of the download of zip archives

\* The install took the way of the zip archives: the flag is set and the
\* version is not the default branch.
ZipWay(r) ==
    data[r].zip_release /\ inst[r].version # data[r].default_branch

\* The positions of the releases that carry the tag of the ref.
Matching(r) ==
    {i \in 1..Len(releases_objects[r]) :
        releases_objects[r][i].tag_name = inst[r].ref.name}

\* The number of assets of the last release that carries the tag of the
\* ref, 0 when no release carries it.
LastMatchingAssets(r) ==
    IF Matching(r) = {} THEN 0
    ELSE releases_objects[r][CHOOSE i \in Matching(r) :
                                \A j \in Matching(r) : j <= i].assets

\* C40: on the way of the zip archives, when no release carries the tag
\* of the ref or the one that does has no assets, the install downloads
\* nothing, the error list stays empty and the repository is marked
\* installed; when assets are downloaded, they are those of the last
\* release that carries the tag.
C40_NothingToDownloadInstalls ==
    \A r \in DOMAIN data :
       (ZipWay(r) /\ AfterDownload(r)) =>
          IF LastMatchingAssets(r) = 0
          THEN /\ IndexOf(oplog[r], "download") = 0
               /\ inst[r].contents = 0
               /\ errors[r] = <<>>
               /\ fs[r].main = pre[r].main
               /\ Returned(r) =>
                     /\ data[r].installed
                     /\ data[r].installed_version = inst[r].version
          ELSE /\ IndexOf(oplog[r], "download") # 0
               /\ inst[r].contents = LastMatchingAssets(r)

\* An install has returned for a repository that was not installed and
\* whose tag is carried by two releases, the last one without assets.
C40_Witness ==
    \E r \in DOMAIN data :
       /\ ZipWay(r) /\ Returned(r)
       /\ ~pre[r].installed
       /\ data[r].installed
       /\ Len(releases_objects[r]) = 2
       /\ Matching(r) = {1, 2}
       /\ releases_objects[r][1].assets > 0
       /\ releases_objects[r][2].assets = 0

====
